---- MODULE Spec2Model ----
(***************************************************************************)
(* Model of the SafeUrl codec of safe-api (src/api/app/xorurl.rs).         *)
(*                                                                         *)
(* Text is a sequence of one-character strings, a byte is an integer in    *)
(* 0..255, a u64 is its 8 big-endian bytes (so that it keeps its width),   *)
(* Option is <<>> (None) or <<x>> (Some(x)), and Result is a record with   *)
(* an ok flag.                                                             *)
(***************************************************************************)
EXTENDS Integers, Sequences, FiniteSets, TLC

VARIABLES url, op

vars == <<url, op>>

(***************************************************************************)
(* Generic helpers on sequences                                            *)
(***************************************************************************)
\* let name = e in body, written as the one-point function [name \in {e} |-> body]
Let(f) == f[CHOOSE x \in DOMAIN f : TRUE]

None == <<>>

Some(x) == <<x>>

Range(s) == {s[i] : i \in 1..Len(s)}

Min(a, b) == IF a < b THEN a ELSE b

Pow2(n) == 2 ^ n

\* the positions of the character c in s, in increasing order
Positions(s, c) ==
    Let([P \in {{i \in 1..Len(s) : s[i] = c}} |->
        [k \in 1..Cardinality(P) |->
            CHOOSE i \in P : Cardinality({j \in P : j < i}) = k - 1]])

\* str::split(c): always at least one piece
Split(s, c) ==
    Let([pos \in {Positions(s, c)} |->
        [k \in 1..(Len(pos) + 1) |->
            SubSeq(s, IF k = 1 THEN 1 ELSE pos[k - 1] + 1,
                      IF k = Len(pos) + 1 THEN Len(s) ELSE pos[k] - 1)]])

RECURSIVE Flatten(_)
Flatten(ss) == IF ss = <<>> THEN <<>> ELSE Head(ss) \o Flatten(Tail(ss))

\* [String]::join(sep)
Join(ss, sep) ==
    Flatten([k \in 1..Len(ss) |-> IF k = 1 THEN ss[k] ELSE sep \o ss[k]])

\* str::find(sub).is_some()
Contains(s, sub) ==
    \E i \in 1..(Len(s) - Len(sub) + 1) : SubSeq(s, i, i + Len(sub) - 1) = sub

StartsWith(s, pre) == Len(s) >= Len(pre) /\ SubSeq(s, 1, Len(pre)) = pre

\* index of the first position of s holding a character of the set cs, or Len(s)+1
FirstOf(s, cs) ==
    Let([P \in {{i \in 1..Len(s) : s[i] \in cs}} |->
        IF P = {} THEN Len(s) + 1 ELSE CHOOSE i \in P : \A j \in P : i <= j])

Repeat(x, n) == [i \in 1..n |-> x]

(***************************************************************************)
(* Characters: printable ASCII, code 32..126 (code 96 is named "grave")    *)
(***************************************************************************)
Ascii ==
    <<" ", "!", "\"", "#", "$", "%", "&", "'", "(", ")", "*", "+", ",", "-", ".", "/",
      "0", "1", "2", "3", "4", "5", "6", "7", "8", "9", ":", ";", "<", "=", ">", "?",
      "@", "A", "B", "C", "D", "E", "F", "G", "H", "I", "J", "K", "L", "M", "N", "O",
      "P", "Q", "R", "S", "T", "U", "V", "W", "X", "Y", "Z", "[", "\\", "]", "^", "_",
      "grave", "a", "b", "c", "d", "e", "f", "g", "h", "i", "j", "k", "l", "m", "n", "o",
      "p", "q", "r", "s", "t", "u", "v", "w", "x", "y", "z", "{", "|", "}", "~">>

CharCode == [c \in Range(Ascii) |-> 31 + CHOOSE i \in 1..Len(Ascii) : Ascii[i] = c]

CharOf(code) == Ascii[code - 31]

Digits == {"0", "1", "2", "3", "4", "5", "6", "7", "8", "9"}

Upper == {Ascii[i] : i \in 34..59}

Lower == {Ascii[i] : i \in 66..91}

AlphaNum == Digits \cup Upper \cup Lower

HexDigits == <<"0", "1", "2", "3", "4", "5", "6", "7", "8", "9", "A", "B", "C", "D", "E", "F">>

IsHex(c) == c \in Digits \cup {"A", "B", "C", "D", "E", "F", "a", "b", "c", "d", "e", "f"}

HexVal(c) ==
    IF c \in Digits THEN CharCode[c] - 48
    ELSE IF c \in Upper THEN CharCode[c] - 55
    ELSE CharCode[c] - 87

\* "%XX", upper-case hex, of a character
PercentOf(c) == <<"%", HexDigits[(CharCode[c] \div 16) + 1], HexDigits[(CharCode[c] % 16) + 1]>>

(***************************************************************************)
(* Program constants                                                       *)
(***************************************************************************)
SAFE_URL_PROTOCOL == <<"s", "a", "f", "e", ":", "/", "/">>

SAFE_URL_SCHEME == <<"s", "a", "f", "e">>

XOR_URL_VERSION_1 == 1

XOR_URL_STR_MAX_LENGTH == 44

XOR_NAME_BYTES_OFFSET == 4

XOR_NAME_LEN == 32

URL_VERSION_QUERY_NAME == <<"v">>

\* a u64 below 2^16 as its 8 big-endian bytes
U64(n) == <<0, 0, 0, 0, 0, 0, n \div 256, n % 256>>

\* imported from the nrs module of the crate (use at xorurl.rs:11), where it is 1_500
NRS_MAP_TYPE_TAG == U64(1500)

\* imported from the crate root (use at xorurl.rs:13), where it is XorUrlBase::Base32z
DEFAULT_XORURL_BASE == "Base32z"

XorUrlBase == {"Base32z", "Base32", "Base64"}

(***************************************************************************)
(* multibase::{encode, decode}: a code character, then the bytes read as   *)
(* one big-endian number written in base 32 or 64, most significant digit  *)
(* first; every leading zero byte is one leading zero digit.               *)
(***************************************************************************)
Base32zAlphabet ==
    <<"y", "b", "n", "d", "r", "f", "g", "8", "e", "j", "k", "m", "c", "p", "q", "x",
      "o", "t", "1", "u", "w", "i", "s", "z", "a", "3", "4", "5", "h", "7", "6", "9">>

Base32Alphabet ==
    <<"a", "b", "c", "d", "e", "f", "g", "h", "i", "j", "k", "l", "m", "n", "o", "p",
      "q", "r", "s", "t", "u", "v", "w", "x", "y", "z", "2", "3", "4", "5", "6", "7">>

Base64Alphabet ==
    <<"A", "B", "C", "D", "E", "F", "G", "H", "I", "J", "K", "L", "M", "N", "O", "P",
      "Q", "R", "S", "T", "U", "V", "W", "X", "Y", "Z", "a", "b", "c", "d", "e", "f",
      "g", "h", "i", "j", "k", "l", "m", "n", "o", "p", "q", "r", "s", "t", "u", "v",
      "w", "x", "y", "z", "0", "1", "2", "3", "4", "5", "6", "7", "8", "9", "+", "/">>

BaseCode == [b \in XorUrlBase |->
                CASE b = "Base32z" -> "h" [] b = "Base32" -> "b" [] b = "Base64" -> "m"]

BaseAlphabet == [b \in XorUrlBase |->
                CASE b = "Base32z" -> Base32zAlphabet
                  [] b = "Base32" -> Base32Alphabet
                  [] b = "Base64" -> Base64Alphabet]

\* bits per digit
BaseWidth == [b \in XorUrlBase |-> IF b = "Base64" THEN 6 ELSE 5]

\* the value of every character of an alphabet
BaseIndex == [b \in XorUrlBase |->
                [c \in Range(BaseAlphabet[b]) |->
                    (CHOOSE i \in 1..Len(BaseAlphabet[b]) : BaseAlphabet[b][i] = c) - 1]]

\* the digits of width w, most significant bit first, as one bit string
BitsOf(ds, w) ==
    [i \in 1..(w * Len(ds)) |->
        (ds[((i - 1) \div w) + 1] \div Pow2(w - 1 - ((i - 1) % w))) % 2]

\* a bit string without its leading zero bits
StripZeroBits(bits) ==
    Let([first \in {FirstOf(bits, {1})} |->
        SubSeq(bits, first, Len(bits))])

RECURSIVE BitsValue(_, _, _)
BitsValue(bits, from, to) ==
    IF from > to THEN 0
    ELSE (IF to >= 1 THEN bits[to] ELSE 0) + 2 * BitsValue(bits, from, to - 1)

\* a bit string read as a number, written in digits of width w (none for zero)
DigitsOf(bits, w) ==
    Let([n \in {Len(bits)} |->
    Let([nd \in {(n + w - 1) \div w} |->
    Let([pad \in {nd * w - n} |->
        [j \in 1..nd |-> BitsValue(bits, (j - 1) * w + 1 - pad, j * w - pad)]])])])

LeadingCount(s, x) == FirstOf(s, Range(s) \ {x}) - 1

\* base_x::encode behind multibase::encode
BaseXEncode(base, bytes) ==
    IF bytes = <<>> THEN <<>>
    ELSE Let([number \in {StripZeroBits(BitsOf(bytes, 8))} |->
         Let([ds \in {IF number = <<>> THEN <<0>> ELSE DigitsOf(number, BaseWidth[base])} |->
         Let([leaders \in {LeadingCount(SubSeq(bytes, 1, Len(bytes) - 1), 0)} |->
             Repeat(BaseAlphabet[base][1], leaders)
                \o [j \in 1..Len(ds) |-> BaseAlphabet[base][ds[j] + 1]]])])])

encode(base, bytes) == <<BaseCode[base]>> \o BaseXEncode(base, bytes)

\* base_x::decode behind multibase::decode; the text holds only digits of the alphabet
BaseXDecode(base, text) ==
    Let([ds \in {[j \in 1..Len(text) |-> BaseIndex[base][text[j]]]} |->
    Let([number \in {StripZeroBits(BitsOf(ds, BaseWidth[base]))} |->
    Let([leaders \in {LeadingCount(text, BaseAlphabet[base][1])} |->
        Repeat(0, leaders) \o DigitsOf(number, 8)])])])

\* multibase::decode: Ok((base, bytes)) or Err
decode(text) ==
    IF text = <<>> THEN [ok |-> FALSE]
    ELSE IF \A b \in XorUrlBase : BaseCode[b] # Head(text) THEN [ok |-> FALSE]
    ELSE Let([base \in {CHOOSE b \in XorUrlBase : BaseCode[b] = Head(text)} |->
             IF Range(Tail(text)) \subseteq Range(BaseAlphabet[base])
             THEN [ok |-> TRUE, base |-> base, bytes |-> BaseXDecode(base, Tail(text))]
             ELSE [ok |-> FALSE]])

(***************************************************************************)
(* url::Url::parse, for the inputs of the model: printable ASCII, a        *)
(* lower-case scheme, no userinfo, no port and no "." or ".." path segment.*)
(***************************************************************************)
SpecialSchemes == {<<"f", "i", "l", "e">>, <<"h", "t", "t", "p">>}

\* characters that Host::parse_opaque rejects and that can reach it in the model
ForbiddenHostChars == {" ", "[", "\\", "]"}

PathEncodeSet == {" ", "\"", "<", ">", "grave", "{", "}"}

QueryEncodeSet == {" ", "\"", "<", ">"}

FragmentEncodeSet == {" ", "\"", "<", ">", "grave"}

\* utf8_percent_encode(text, set)
EncodeWith(text, set) ==
    Flatten([i \in 1..Len(text) |-> IF text[i] \in set THEN PercentOf(text[i]) ELSE <<text[i]>>])

\* leading and trailing spaces are dropped before parsing
RECURSIVE TrimSpaces(_)
TrimSpaces(s) ==
    IF s = <<>> THEN s
    ELSE IF Head(s) = " " THEN TrimSpaces(Tail(s))
    ELSE IF s[Len(s)] = " " THEN TrimSpaces(SubSeq(s, 1, Len(s) - 1))
    ELSE s

UrlErr(msg) == [ok |-> FALSE, err |-> msg]

UrlParse(raw) ==
    Let([input \in {TrimSpaces(raw)} |->
    Let([colon \in {FirstOf(input, {":"})} |->
    Let([scheme \in {SubSeq(input, 1, colon - 1)} |->
    Let([schemeOk \in {/\ colon <= Len(input)
                       /\ scheme # <<>>
                       /\ Head(scheme) \in Lower \cup Upper
                       /\ Range(scheme) \subseteq AlphaNum \cup {"+", "-", "."}} |->
    Let([rest \in {SubSeq(input, colon + 1, Len(input))} |->
    Let([special \in {scheme \in SpecialSchemes} |->
    Let([hashAt \in {FirstOf(rest, {"#"})} |->
    Let([noFrag \in {SubSeq(rest, 1, hashAt - 1)} |->
    Let([fragment \in {IF hashAt <= Len(rest)
                       THEN Some(EncodeWith(SubSeq(rest, hashAt + 1, Len(rest)), FragmentEncodeSet))
                       ELSE None} |->
    Let([qAt \in {FirstOf(noFrag, {"?"})} |->
    Let([noQuery \in {SubSeq(noFrag, 1, qAt - 1)} |->
    Let([query \in {IF qAt <= Len(noFrag)
                    THEN Some(EncodeWith(SubSeq(noFrag, qAt + 1, Len(noFrag)),
                                         IF special THEN QueryEncodeSet \cup {"'"} ELSE QueryEncodeSet))
                    ELSE None} |->
    Let([hasAuth \in {StartsWith(noQuery, <<"/", "/">>)} |->
    Let([afterSl \in {SubSeq(noQuery, 3, Len(noQuery))} |->
    Let([pathAt \in {FirstOf(afterSl, {"/"})} |->
    Let([auth \in {SubSeq(afterSl, 1, pathAt - 1)} |->
    Let([rawPath \in {IF hasAuth THEN SubSeq(afterSl, pathAt, Len(afterSl)) ELSE noQuery} |->
    Let([path \in {IF special /\ rawPath = <<>> THEN <<"/">> ELSE EncodeWith(rawPath, PathEncodeSet)} |->
        IF ~schemeOk THEN UrlErr("relative URL without a base")
        ELSE IF hasAuth /\ Range(auth) \cap ForbiddenHostChars # {}
        THEN UrlErr("invalid domain character")
        ELSE [ok |-> TRUE, scheme |-> scheme,
              host |-> IF hasAuth /\ auth # <<>> THEN Some(auth) ELSE None,
              path |-> path, query |-> query, fragment |-> fragment]])])])])])])])])])])])])])])])])])])

UnwrapOr(opt, default) == IF opt = None THEN default ELSE opt[1]

(***************************************************************************)
(* url::form_urlencoded: parse and Serializer::append_pair                 *)
(***************************************************************************)
\* percent_decode: "%XX" becomes the character of code XX, anything else stays
RECURSIVE PercentDecode(_)
PercentDecode(s) ==
    IF s = <<>> THEN <<>>
    ELSE IF Head(s) = "%" /\ Len(s) >= 3 /\ IsHex(s[2]) /\ IsHex(s[3])
    THEN <<CharOf(16 * HexVal(s[2]) + HexVal(s[3]))>> \o PercentDecode(SubSeq(s, 4, Len(s)))
    ELSE <<Head(s)>> \o PercentDecode(Tail(s))

\* decode of one name or value: '+' is a space, then percent_decode
FormDecode(s) == PercentDecode([i \in 1..Len(s) |-> IF s[i] = "+" THEN " " ELSE s[i]])

\* form_urlencoded::parse: the decoded (name, value) pairs of a query
FormParse(query) ==
    Let([pieces \in {SelectSeq(Split(query, "&"), LAMBDA p : p # <<>>)} |->
        [i \in 1..Len(pieces) |->
            Let([eq \in {FirstOf(pieces[i], {"="})} |->
                <<FormDecode(SubSeq(pieces[i], 1, eq - 1)),
                  FormDecode(SubSeq(pieces[i], eq + 1, Len(pieces[i])))>>])]])

FormUnreserved == AlphaNum \cup {"*", "-", ".", "_"}

\* form_urlencoded::byte_serialize
ByteSerialize(s) ==
    Flatten([i \in 1..Len(s) |->
                IF s[i] \in FormUnreserved THEN <<s[i]>>
                ELSE IF s[i] = " " THEN <<"+">>
                ELSE PercentOf(s[i])])

\* Serializer::append_pair on the query built so far
AppendPair(query, k, v) ==
    (IF query = <<>> THEN <<>> ELSE query \o <<"&">>) \o ByteSerialize(k) \o <<"=">> \o ByteSerialize(v)

(***************************************************************************)
(* urlencoding::encode                                                     *)
(***************************************************************************)
UrlUnreserved == AlphaNum \cup {"-", "_", ".", "~"}

url_percent_encode(s) == EncodeWith(s, Range(Ascii) \ UrlUnreserved)

(***************************************************************************)
(* u64 <-> decimal text (values of the model stay below 2^31)              *)
(***************************************************************************)
RECURSIVE DecimalValue(_)
DecimalValue(ds) ==
    IF ds = <<>> THEN 0 ELSE 10 * DecimalValue(SubSeq(ds, 1, Len(ds) - 1)) + HexVal(ds[Len(ds)])

\* str::parse::<u64>(): an optional '+', then one digit or more
ParseU64(s) ==
    Let([ds \in {IF s # <<>> /\ Head(s) = "+" THEN Tail(s) ELSE s} |->
        IF ds # <<>> /\ Range(ds) \subseteq Digits
        THEN [ok |-> TRUE, val |-> DecimalValue(ds)]
        ELSE [ok |-> FALSE]])

\* u64::to_string()
RECURSIVE U64ToString(_)
U64ToString(n) ==
    IF n < 10 THEN <<CharOf(48 + n)>> ELSE U64ToString(n \div 10) \o <<CharOf(48 + (n % 10))>>


(***************************************************************************)
(* Results and errors                                                      *)
(***************************************************************************)
Ok(v) == [ok |-> TRUE, val |-> v]

\* Err(Error::<type>(msg)); detail holds the values the message cites
Err(type, msg, detail) == [ok |-> FALSE, type |-> type, msg |-> msg, detail |-> detail]

(***************************************************************************)
(* SafeContentType, SafeDataType and the media-type registry               *)
(***************************************************************************)
SafeDataType ==
    <<"SafeKey", "PublishedImmutableData", "UnpublishedImmutableData", "SeqMutableData",
      "UnseqMutableData", "PublishedSeqAppendOnlyData", "PublishedUnseqAppendOnlyData",
      "UnpublishedSeqAppendOnlyData", "UnpublishedUnseqAppendOnlyData">>

\* `data_type as u8`
DataTypeCode(dt) == (CHOOSE i \in 1..Len(SafeDataType) : SafeDataType[i] = dt) - 1

FixedContentTypes == <<"Raw", "Wallet", "FilesContainer", "NrsMapContainer">>

Fixed(kind) == [kind |-> kind, media |-> ""]

MediaType(m) == [kind |-> "MediaType", media |-> m]

\* the registry of xorurl_media_types: media-type string -> code
MEDIA_TYPE_CODES == [m \in {"text/html", "text/css"} |-> IF m = "text/html" THEN 4 ELSE 5]

\* the same registry, code -> media-type string
MEDIA_TYPE_STR == [c \in {MEDIA_TYPE_CODES[m] : m \in DOMAIN MEDIA_TYPE_CODES} |->
                      CHOOSE m \in DOMAIN MEDIA_TYPE_CODES : MEDIA_TYPE_CODES[m] = c]

\* is_media_type_supported with a bug: every media type passes
is_media_type_supported_always(media_type) == media_type = media_type

is_media_type_supported(media_type) == media_type \in DOMAIN MEDIA_TYPE_CODES

(***************************************************************************)
(* tiny_keccak::sha3_256 of a label: the real digest for the labels of the *)
(* fixtures, and for any other label 32 bytes computed from its characters *)
(***************************************************************************)
Sha3Known ==
    [l \in {<<"d", "o", "m", "a", "i", "n">>, <<"m", "y", "n", "a", "m", "e">>, <<"a">>} |->
        CASE l = <<"d", "o", "m", "a", "i", "n">> ->
                <<106, 251, 20, 142, 171, 255, 136, 56, 223, 234, 80, 25, 221, 158, 238, 143,
                  54, 28, 128, 87, 6, 61, 241, 36, 137, 183, 13, 62, 208, 250, 86, 99>>
          [] l = <<"m", "y", "n", "a", "m", "e">> ->
                <<18, 166, 190, 215, 49, 116, 239, 60, 35, 129, 183, 54, 30, 251, 25, 116,
                  217, 73, 55, 218, 70, 145, 231, 157, 43, 112, 68, 167, 141, 110, 78, 190>>
          [] l = <<"a">> ->
                <<128, 8, 75, 242, 251, 160, 36, 117, 114, 111, 235, 44, 171, 45, 130, 21,
                  234, 177, 75, 198, 189, 216, 191, 178, 200, 21, 18, 87, 3, 46, 205, 139>>]

Mix(name, i) ==
    IF name = <<>> THEN 7 * i
    ELSE 3 * CharCode[name[((i - 1) % Len(name)) + 1]] + Len(name) + i

sha3_256(name) ==
    IF name \in DOMAIN Sha3Known THEN Sha3Known[name]
    ELSE [i \in 1..32 |-> Mix(name, i) % 256]

xorname_from_nrs_string(name) == Ok(sha3_256(name))

(***************************************************************************)
(* SafeUrlParts::parse                                                     *)
(***************************************************************************)
\* SafeUrlPartsParse with a bug: the path is looked at before the host
SafeUrlPartsParsePathFirst(u) ==
    Let([parsing_url \in {UrlParse(u)} |->
        IF ~parsing_url.ok
        THEN Err("InvalidXorUrl", "Problem parsing the URL", <<parsing_url.err>>)
        ELSE IF parsing_url.scheme # SAFE_URL_SCHEME
        THEN Err("InvalidXorUrl", "invalid scheme", <<parsing_url.scheme>>)
        ELSE IF parsing_url.host = None
        THEN Err("InvalidXorUrl", "Problem parsing the URL", <<"missing host">>)
        ELSE Let([host \in {parsing_url.host[1]} |->
             Let([names_vec \in {Split(host, ".")} |->
             Let([path \in {parsing_url.path} |->
                 IF Contains(path, <<"/", "/">>)
                 THEN Err("InvalidXorUrl", "path contains empty component", <<>>)
                 ELSE IF Contains(host, <<".", ".">>)
                 THEN Err("InvalidXorUrl", "host contains empty subname", <<>>)
                 ELSE Ok([scheme       |-> parsing_url.scheme,
                          host         |-> host,
                          sub_names    |-> SubSeq(names_vec, 1, Len(names_vec) - 1),
                          tld          |-> names_vec[Len(names_vec)],
                          path         |-> path,
                          query_string |-> UnwrapOr(parsing_url.query, <<>>),
                          fragment     |-> UnwrapOr(parsing_url.fragment, <<>>)])])])])])

SafeUrlPartsParse(u) ==
    Let([parsing_url \in {UrlParse(u)} |->
        IF ~parsing_url.ok
        THEN Err("InvalidXorUrl", "Problem parsing the URL", <<parsing_url.err>>)
        ELSE IF parsing_url.scheme # SAFE_URL_SCHEME
        THEN Err("InvalidXorUrl", "invalid scheme", <<parsing_url.scheme>>)
        ELSE IF parsing_url.host = None
        THEN Err("InvalidXorUrl", "Problem parsing the URL", <<"missing host">>)
        ELSE Let([host \in {parsing_url.host[1]} |->
             Let([names_vec \in {Split(host, ".")} |->
             Let([path \in {parsing_url.path} |->
                 IF Contains(host, <<".", ".">>)
                 THEN Err("InvalidXorUrl", "host contains empty subname", <<>>)
                 ELSE IF Contains(path, <<"/", "/">>)
                 THEN Err("InvalidXorUrl", "path contains empty component", <<>>)
                 ELSE Ok([scheme       |-> parsing_url.scheme,
                          host         |-> host,
                          sub_names    |-> SubSeq(names_vec, 1, Len(names_vec) - 1),
                          tld          |-> names_vec[Len(names_vec)],
                          path         |-> path,
                          query_string |-> UnwrapOr(parsing_url.query, <<>>),
                          fragment     |-> UnwrapOr(parsing_url.fragment, <<>>)])])])])])

(***************************************************************************)
(* SafeUrl: query string                                                   *)
(***************************************************************************)
\* the result of a &mut self method: the receiver afterwards and Ok(()) or Err
Done(self) == [self |-> self, ok |-> TRUE]

Failed(self, type, msg, detail) ==
    [self |-> self, ok |-> FALSE, type |-> type, msg |-> msg, detail |-> detail]

query_string_to_url(query_str) ==
    Let([u \in {UrlParse(<<"f", "i", "l", "e", ":", "/", "/", "d", "u", "m", "m", "y", "?">> \o query_str)} |->
        IF u.ok THEN Ok(u) ELSE Err("InvalidInput", "Invalid query string", <<query_str>>)])

query_pairs_internal(query_str) ==
    Let([u \in {query_string_to_url(query_str)} |->
        IF u.ok THEN FormParse(UnwrapOr(u.val.query, <<>>)) ELSE <<>>])

\* query_key_internal with a bug: the loop stops at the first match
query_key_internal_first_match(query_str, key) ==
    Let([pairs \in {query_pairs_internal(query_str)} |->
    Let([hits \in {SelectSeq(pairs, LAMBDA kv : kv[1] = key)} |->
        IF hits = <<>> THEN <<>> ELSE <<hits[1][2]>>])])

query_key_internal(query_str, key) ==
    Let([pairs \in {query_pairs_internal(query_str)} |->
    Let([hits \in {SelectSeq(pairs, LAMBDA kv : kv[1] = key)} |->
        [i \in 1..Len(hits) |-> hits[i][2]]])])

\* query_key_last_internal with a bug: matches.first() instead of matches.last()
query_key_last_internal_taking_first(query_str, key) ==
    Let([matches \in {query_key_internal(query_str, key)} |->
        IF matches = <<>> THEN None ELSE Some(matches[1])])

query_key_last_internal(query_str, key) ==
    Let([matches \in {query_key_internal(query_str, key)} |->
        IF matches = <<>> THEN None ELSE Some(matches[Len(matches)])])

query_key_first_internal(query_str, key) ==
    Let([matches \in {query_key_internal(query_str, key)} |->
        IF matches = <<>> THEN None ELSE Some(matches[1])])

set_content_version_internal(self, version_option) ==
    IF version_option # None
    THEN Let([version \in {ParseU64(version_option[1])} |->
             IF version.ok
             THEN Done([self EXCEPT !.content_version = Some(version.val)])
             ELSE Failed(self, "InvalidInput", "param could not be parsed as u64",
                         <<URL_VERSION_QUERY_NAME, version_option[1]>>)])
    ELSE Done([self EXCEPT !.content_version = None])

\* RebuildPairs with a bug: every occurrence of key is dropped, so that the new pair
\* lands at the end of the query instead of at the first occurrence
RECURSIVE RebuildPairsAtEnd(_, _, _, _)
RebuildPairsAtEnd(pairs, n, key, val) ==
    IF n = 0 THEN [query |-> <<>>, set_key |-> FALSE]
    ELSE Let([acc \in {RebuildPairsAtEnd(pairs, n - 1, key, val)} |->
             IF pairs[n][1] = key THEN acc
             ELSE [query |-> AppendPair(acc.query, pairs[n][1], pairs[n][2]), set_key |-> acc.set_key]])

\* RebuildPairs with a bug: only the first occurrence of key is consumed, later ones are kept
RECURSIVE RebuildPairsFirstOnly(_, _, _, _)
RebuildPairsFirstOnly(pairs, n, key, val) ==
    IF n = 0 THEN [query |-> <<>>, set_key |-> FALSE, seen |-> FALSE]
    ELSE Let([acc \in {RebuildPairsFirstOnly(pairs, n - 1, key, val)} |->
         Let([k \in {pairs[n][1]} |->
         Let([v \in {pairs[n][2]} |->
             IF k = key /\ ~acc.seen
             THEN IF val # None
                  THEN [query |-> AppendPair(acc.query, key, val[1]), set_key |-> TRUE, seen |-> TRUE]
                  ELSE [acc EXCEPT !.seen = TRUE]
             ELSE [acc EXCEPT !.query = AppendPair(acc.query, k, v)]])])])

\* the loop of set_query_key over the old pairs: [query, set_key] after pairs[1..n]
RECURSIVE RebuildPairs(_, _, _, _)
RebuildPairs(pairs, n, key, val) ==
    IF n = 0 THEN [query |-> <<>>, set_key |-> FALSE]
    ELSE Let([acc \in {RebuildPairs(pairs, n - 1, key, val)} |->
         Let([k \in {pairs[n][1]} |->
         Let([v \in {pairs[n][2]} |->
             IF k = key
             THEN IF val # None /\ ~acc.set_key
                  THEN [query |-> AppendPair(acc.query, key, val[1]), set_key |-> TRUE]
                  ELSE acc
             ELSE [query |-> AppendPair(acc.query, k, v), set_key |-> acc.set_key]])])])

set_query_key(self, key, val) ==
    Let([u \in {query_string_to_url(self.query_string)} |->
        IF ~u.ok THEN Failed(self, u.type, u.msg, u.detail)
        ELSE Let([pairs \in {FormParse(UnwrapOr(u.val.query, <<>>))} |->
             Let([looped \in {RebuildPairs(pairs, Len(pairs), key, val)} |->
             Let([query \in {IF ~looped.set_key /\ val # None
                             THEN AppendPair(looped.query, key, val[1])
                             ELSE looped.query} |->
             Let([written \in {[self EXCEPT !.query_string = query]} |->
                 IF key = URL_VERSION_QUERY_NAME
                 THEN set_content_version_internal(written, val)
                 ELSE Done(written)])])])])])

\* set_query_string with a bug: the query string is written before the version is parsed
set_query_string_writing_first(self, query) ==
    Let([written \in {[self EXCEPT !.query_string = query]} |->
    Let([v_option \in {query_key_last_internal(query, URL_VERSION_QUERY_NAME)} |->
        set_content_version_internal(written, v_option)])])

set_query_string(self, query) ==
    Let([v_option \in {query_key_last_internal(query, URL_VERSION_QUERY_NAME)} |->
    Let([versioned \in {set_content_version_internal(self, v_option)} |->
        IF ~versioned.ok THEN versioned
        ELSE Done([versioned.self EXCEPT !.query_string = query])])])

\* set_content_version with a bug: only the cached field is written, not the query string
set_content_version_field_only(self, version) == [self EXCEPT !.content_version = version]

\* the warn-and-continue of unwrap_or_else drops the error
set_content_version(self, version) ==
    Let([v_option \in {IF version = None THEN None ELSE Some(U64ToString(version[1]))} |->
        set_query_key(self, URL_VERSION_QUERY_NAME, v_option).self])

query_string_with_separator(self) ==
    IF self.query_string = <<>> THEN <<>> ELSE <<"?">> \o self.query_string

query_pairs(self) == query_pairs_internal(self.query_string)

query_key(self, key) == query_key_internal(self.query_string, key)

query_key_last(self, key) == query_key_last_internal(self.query_string, key)

query_key_first(self, key) == query_key_first_internal(self.query_string, key)

(***************************************************************************)
(* SafeUrl: path and fragment                                              *)
(***************************************************************************)
\* set_path_internal with a bug: the leading separator is computed but not written
set_path_internal_without_separator(self, path, percent_encode) ==
    IF path = <<>>
    THEN IF self.path # <<>> THEN [self EXCEPT !.path = path] ELSE self
    ELSE Let([parts \in {Split(path, "/")} |->
         Let([kept \in {{i \in 1..Len(parts) : parts[i] # <<>> \/ i - 1 > 0}} |->
         Let([new_parts \in {[k \in 1..Cardinality(kept) |->
                                 Let([i \in {CHOOSE i \in kept : Cardinality({j \in kept : j < i}) = k - 1} |->
                                     IF percent_encode THEN url_percent_encode(parts[i]) ELSE parts[i]])]} |->
         Let([new_path \in {Join(new_parts, <<"/">>)} |->
         Let([separator \in {IF new_path = <<>> THEN <<>> ELSE <<"/">>} |->
             [self EXCEPT !.path = new_path]])])])])])

set_path_internal(self, path, percent_encode) ==
    IF path = <<>>
    THEN IF self.path # <<>> THEN [self EXCEPT !.path = path] ELSE self
    ELSE Let([parts \in {Split(path, "/")} |->
         Let([kept \in {{i \in 1..Len(parts) : parts[i] # <<>> \/ i - 1 > 0}} |->
         Let([new_parts \in {[k \in 1..Cardinality(kept) |->
                                 Let([i \in {CHOOSE i \in kept : Cardinality({j \in kept : j < i}) = k - 1} |->
                                     IF percent_encode THEN url_percent_encode(parts[i]) ELSE parts[i]])]} |->
         Let([new_path \in {Join(new_parts, <<"/">>)} |->
         Let([separator \in {IF new_path = <<>> THEN <<>> ELSE <<"/">>} |->
             [self EXCEPT !.path = separator \o new_path]])])])])])

set_path(self, path) == set_path_internal(self, path, TRUE)

\* set_fragment with a bug: the path is cleared too
set_fragment_clearing_path(self, fragment) ==
    [self EXCEPT !.fragment = fragment, !.path = <<>>]

set_fragment(self, fragment) == [self EXCEPT !.fragment = fragment]

fragment_with_separator(self) ==
    IF self.fragment = <<>> THEN <<>> ELSE <<"#">> \o self.fragment

is_nrs(self) == self.nrs_host # <<>>


(***************************************************************************)
(* SafeUrl::new                                                            *)
(***************************************************************************)
\* the fields set by the struct literal of new(), before the setters run
Instantiate(a, host, subnames) ==
    [encoding_version |-> XOR_URL_VERSION_1,
     xorname          |-> a.xorname,
     nrs_host         |-> host,
     type_tag         |-> a.type_tag,
     data_type        |-> a.data_type,
     content_type     |-> a.content_type,
     path             |-> <<>>,
     sub_names        |-> subnames,
     query_string     |-> <<>>,
     fragment         |-> UnwrapOr(a.fragment, <<>>),
     content_version  |-> None]

\* Populate with a bug: content_version is applied before the query string, so that
\* the v of the query string wins
PopulateVersionFirst(a, x0) ==
    Let([x1 \in {set_path_internal(x0, UnwrapOr(a.path, <<>>), FALSE)} |->
    Let([x2 \in {IF a.content_version # None
                  THEN set_content_version(x1, a.content_version) ELSE x1} |->
    Let([x3 \in {set_query_string(x2, UnwrapOr(a.query_string, <<>>))} |->
        IF ~x3.ok THEN Err(x3.type, x3.msg, x3.detail) ELSE Ok(x3.self)])])])

\* the tail of new(): set_path_internal, set_query_string, set_content_version
Populate(a, x0) ==
    Let([x1 \in {set_path_internal(x0, UnwrapOr(a.path, <<>>), FALSE)} |->
    Let([x2 \in {set_query_string(x1, UnwrapOr(a.query_string, <<>>))} |->
        IF ~x2.ok THEN Err(x2.type, x2.msg, x2.detail)
        ELSE IF a.content_version # None
        THEN Ok(set_content_version(x2.self, a.content_version))
        ELSE Ok(x2.self)])])

\* NewNrs with a bug: the hash of the top-level label is not compared with xorname
NewNrsUnchecked(a, nh) ==
    IF nh = <<>>
    THEN Err("InvalidInput", "nrs_host cannot be empty string.", <<>>)
    ELSE Let([parts \in {SafeUrlPartsParse(SAFE_URL_PROTOCOL \o nh)} |->
             IF ~parts.ok THEN parts
             ELSE Populate(a, Instantiate(a, nh, parts.val.sub_names))])

\* the arm Some(nh) of new(): an nrsurl
NewNrs(a, nh) ==
    IF nh = <<>>
    THEN Err("InvalidInput", "nrs_host cannot be empty string.", <<>>)
    ELSE Let([parts \in {SafeUrlPartsParse(SAFE_URL_PROTOCOL \o nh)} |->
             IF ~parts.ok THEN parts
             ELSE Let([hashed_host \in {xorname_from_nrs_string(parts.val.tld)} |->
                      IF hashed_host.val # a.xorname
                      THEN Err("InvalidInput", "input mis-match. nrs_host does not hash to xorname",
                               <<parts.val.tld, a.xorname>>)
                      ELSE Populate(a, Instantiate(a, nh, parts.val.sub_names))])])

\* NewXor with a bug: the sub-names are not looked at
NewXorUnchecked(a, subnames) == Populate(a, Instantiate(a, <<>>, subnames))

\* the arm None of new(): an xorurl
NewXor(a, subnames) ==
    IF \E k \in 1..Len(subnames) : subnames[k] = <<>>
    THEN Err("InvalidInput", "empty subname", <<>>)
    ELSE Populate(a, Instantiate(a, <<>>, subnames))

new(a) ==
    IF a.content_type.kind = "MediaType" /\ ~is_media_type_supported(a.content_type.media)
    THEN Err("InvalidMediaType", "Media-type not supported", <<a.content_type.media>>)
    ELSE IF a.nrs_host # None
    THEN NewNrs(a, a.nrs_host[1])
    ELSE NewXor(a, UnwrapOr(a.sub_names, <<>>))

(***************************************************************************)
(* SafeUrl::from_nrsurl, from_xorurl, from_url                             *)
(***************************************************************************)
\* from_nrsurl with a bug: the whole host is hashed
from_nrsurl_hashing_host(nrsurl) ==
    Let([parts \in {SafeUrlPartsParse(nrsurl)} |->
        IF ~parts.ok THEN parts
        ELSE Let([x \in {new([xorname         |-> xorname_from_nrs_string(parts.val.tld).val,
                              nrs_host        |-> Some(parts.val.host),
                              type_tag        |-> NRS_MAP_TYPE_TAG,
                              data_type       |-> "PublishedSeqAppendOnlyData",
                              content_type    |-> Fixed("NrsMapContainer"),
                              path            |-> Some(parts.val.path),
                              sub_names       |-> Some(parts.val.sub_names),
                              query_string    |-> Some(parts.val.query_string),
                              fragment        |-> Some(parts.val.fragment),
                              content_version |-> None])} |->
                 IF ~x.ok THEN x
                 ELSE Ok([x.val EXCEPT
                             !.xorname = xorname_from_nrs_string(parts.val.host).val])])])

\* from_nrsurl with a bug: the fragment of the URL is not passed on
from_nrsurl_dropping_fragment(nrsurl) ==
    Let([parts \in {SafeUrlPartsParse(nrsurl)} |->
        IF ~parts.ok THEN parts
        ELSE new([xorname         |-> xorname_from_nrs_string(parts.val.tld).val,
                  nrs_host        |-> Some(parts.val.host),
                  type_tag        |-> NRS_MAP_TYPE_TAG,
                  data_type       |-> "PublishedSeqAppendOnlyData",
                  content_type    |-> Fixed("NrsMapContainer"),
                  path            |-> Some(parts.val.path),
                  sub_names       |-> Some(parts.val.sub_names),
                  query_string    |-> Some(parts.val.query_string),
                  fragment        |-> None,
                  content_version |-> None])])

from_nrsurl(nrsurl) ==
    Let([parts \in {SafeUrlPartsParse(nrsurl)} |->
        IF ~parts.ok THEN parts
        ELSE new([xorname         |-> xorname_from_nrs_string(parts.val.tld).val,
                  nrs_host        |-> Some(parts.val.host),
                  type_tag        |-> NRS_MAP_TYPE_TAG,
                  data_type       |-> "PublishedSeqAppendOnlyData",
                  content_type    |-> Fixed("NrsMapContainer"),
                  path            |-> Some(parts.val.path),
                  sub_names       |-> Some(parts.val.sub_names),
                  query_string    |-> Some(parts.val.query_string),
                  fragment        |-> Some(parts.val.fragment),
                  content_version |-> None])])

\* offset where to find the type tag bytes
type_tag_offset == XOR_NAME_BYTES_OFFSET + XOR_NAME_LEN

\* DecodeTypeTag with a bug: the bytes are copied to the head of [0; 8], not to its tail
DecodeTypeTagAtHead(xorurl_bytes) ==
    Let([type_tag_bytes_len \in {Len(xorurl_bytes) - type_tag_offset} |->
        [i \in 1..8 |->
            IF i <= type_tag_bytes_len THEN xorurl_bytes[type_tag_offset + i] ELSE 0]])

\* the type tag of a body: the bytes after the offset, copied into the tail of [0; 8]
DecodeTypeTag(xorurl_bytes) ==
    Let([type_tag_bytes_len \in {Len(xorurl_bytes) - type_tag_offset} |->
        [i \in 1..8 |->
            IF i > 8 - type_tag_bytes_len
            THEN xorurl_bytes[type_tag_offset + i - (8 - type_tag_bytes_len)]
            ELSE 0]])

\* ByteAccesses with a bug: a body longer than XOR_URL_STR_MAX_LENGTH is not refused
ByteAccessesWithoutMaximum(xorurl_bytes) ==
    Let([n \in {Len(xorurl_bytes)} |->
        IF n < type_tag_offset THEN <<>>
        ELSE <<[of |-> n, from |-> 0, to |-> 1]>> \o
             (IF xorurl_bytes[1] # XOR_URL_VERSION_1 THEN <<>>
              ELSE <<[of |-> n, from |-> 1, to |-> 3]>> \o
                   (IF 256 * xorurl_bytes[2] + xorurl_bytes[3] \notin 0..3 \cup DOMAIN MEDIA_TYPE_STR
                    THEN <<>>
                    ELSE <<[of |-> n, from |-> 3, to |-> 4]>> \o
                         (IF xorurl_bytes[4] > 8 THEN <<>>
                          ELSE <<[of |-> n, from |-> XOR_NAME_BYTES_OFFSET, to |-> type_tag_offset],
                                 [of |-> 8, from |-> 8 - (n - type_tag_offset), to |-> 8],
                                 [of |-> n, from |-> type_tag_offset, to |-> n]>>)))])

\* the slices buf[from..to] that from_xorurl takes before it returns, in order, each with
\* the length `of` of the buffer sliced: xorurl_bytes[0], [1..3], [3],
\* [XOR_NAME_BYTES_OFFSET..type_tag_offset], type_tag_bytes[8 - type_tag_bytes_len..] and
\* xorurl_bytes[type_tag_offset..]
ByteAccesses(xorurl_bytes) ==
    Let([n \in {Len(xorurl_bytes)} |->
        IF n < type_tag_offset \/ n > XOR_URL_STR_MAX_LENGTH THEN <<>>
        ELSE <<[of |-> n, from |-> 0, to |-> 1]>> \o
             (IF xorurl_bytes[1] # XOR_URL_VERSION_1 THEN <<>>
              ELSE <<[of |-> n, from |-> 1, to |-> 3]>> \o
                   (IF 256 * xorurl_bytes[2] + xorurl_bytes[3] \notin 0..3 \cup DOMAIN MEDIA_TYPE_STR
                    THEN <<>>
                    ELSE <<[of |-> n, from |-> 3, to |-> 4]>> \o
                         (IF xorurl_bytes[4] > 8 THEN <<>>
                          ELSE <<[of |-> n, from |-> XOR_NAME_BYTES_OFFSET, to |-> type_tag_offset],
                                 [of |-> 8, from |-> 8 - (n - type_tag_offset), to |-> 8],
                                 [of |-> n, from |-> type_tag_offset, to |-> n]>>)))])

\* DecodeBody with a bug: a body of exactly XOR_URL_STR_MAX_LENGTH bytes is too long
DecodeBodyBelowMax(xorurl_bytes) ==
    IF Len(xorurl_bytes) < type_tag_offset
    THEN Err("InvalidXorUrl", "Invalid XOR-URL, encoded string too short", <<Len(xorurl_bytes)>>)
    ELSE IF Len(xorurl_bytes) >= XOR_URL_STR_MAX_LENGTH
    THEN Err("InvalidXorUrl", "Invalid XOR-URL, encoded string too long", <<Len(xorurl_bytes)>>)
    ELSE IF xorurl_bytes[1] # XOR_URL_VERSION_1
    THEN Err("InvalidXorUrl", "Invalid or unsupported XOR-URL encoding version", <<xorurl_bytes[1]>>)
    ELSE Let([code \in {256 * xorurl_bytes[2] + xorurl_bytes[3]} |->
             IF code > 3 /\ code \notin DOMAIN MEDIA_TYPE_STR
             THEN Err("InvalidXorUrl", "Invalid content type encoded in the XOR-URL string", <<code>>)
             ELSE IF xorurl_bytes[4] > 8
             THEN Err("InvalidXorUrl", "Invalid SAFE data type encoded in the XOR-URL string",
                      <<xorurl_bytes[4]>>)
             ELSE Ok([content_type |-> IF code <= 3 THEN Fixed(FixedContentTypes[code + 1])
                                       ELSE MediaType(MEDIA_TYPE_STR[code]),
                      data_type    |-> SafeDataType[xorurl_bytes[4] + 1],
                      xorname      |-> SubSeq(xorurl_bytes, XOR_NAME_BYTES_OFFSET + 1, type_tag_offset),
                      type_tag     |-> DecodeTypeTag(xorurl_bytes)])])

\* DecodeBody with a bug: the content-type code is looked at before the version byte
DecodeBodyContentTypeFirst(xorurl_bytes) ==
    IF Len(xorurl_bytes) < type_tag_offset
    THEN Err("InvalidXorUrl", "Invalid XOR-URL, encoded string too short", <<Len(xorurl_bytes)>>)
    ELSE IF Len(xorurl_bytes) > XOR_URL_STR_MAX_LENGTH
    THEN Err("InvalidXorUrl", "Invalid XOR-URL, encoded string too long", <<Len(xorurl_bytes)>>)
    ELSE Let([code \in {256 * xorurl_bytes[2] + xorurl_bytes[3]} |->
             IF code > 3 /\ code \notin DOMAIN MEDIA_TYPE_STR
             THEN Err("InvalidXorUrl", "Invalid content type encoded in the XOR-URL string", <<code>>)
             ELSE IF xorurl_bytes[1] # XOR_URL_VERSION_1
             THEN Err("InvalidXorUrl", "Invalid or unsupported XOR-URL encoding version", <<xorurl_bytes[1]>>)
             ELSE IF xorurl_bytes[4] > 8
             THEN Err("InvalidXorUrl", "Invalid SAFE data type encoded in the XOR-URL string",
                      <<xorurl_bytes[4]>>)
             ELSE Ok([content_type |-> IF code <= 3 THEN Fixed(FixedContentTypes[code + 1])
                                       ELSE MediaType(MEDIA_TYPE_STR[code]),
                      data_type    |-> SafeDataType[xorurl_bytes[4] + 1],
                      xorname      |-> SubSeq(xorurl_bytes, XOR_NAME_BYTES_OFFSET + 1, type_tag_offset),
                      type_tag     |-> DecodeTypeTag(xorurl_bytes)])])

\* the checks of from_xorurl on the decoded bytes, in order; Ok(fields) or Err
DecodeBody(xorurl_bytes) ==
    IF Len(xorurl_bytes) < type_tag_offset
    THEN Err("InvalidXorUrl", "Invalid XOR-URL, encoded string too short", <<Len(xorurl_bytes)>>)
    ELSE IF Len(xorurl_bytes) > XOR_URL_STR_MAX_LENGTH
    THEN Err("InvalidXorUrl", "Invalid XOR-URL, encoded string too long", <<Len(xorurl_bytes)>>)
    ELSE IF xorurl_bytes[1] # XOR_URL_VERSION_1
    THEN Err("InvalidXorUrl", "Invalid or unsupported XOR-URL encoding version", <<xorurl_bytes[1]>>)
    ELSE Let([code \in {256 * xorurl_bytes[2] + xorurl_bytes[3]} |->
             IF code > 3 /\ code \notin DOMAIN MEDIA_TYPE_STR
             THEN Err("InvalidXorUrl", "Invalid content type encoded in the XOR-URL string", <<code>>)
             ELSE IF xorurl_bytes[4] > 8
             THEN Err("InvalidXorUrl", "Invalid SAFE data type encoded in the XOR-URL string",
                      <<xorurl_bytes[4]>>)
             ELSE Ok([content_type |-> IF code <= 3 THEN Fixed(FixedContentTypes[code + 1])
                                       ELSE MediaType(MEDIA_TYPE_STR[code]),
                      data_type    |-> SafeDataType[xorurl_bytes[4] + 1],
                      xorname      |-> SubSeq(xorurl_bytes, XOR_NAME_BYTES_OFFSET + 1, type_tag_offset),
                      type_tag     |-> DecodeTypeTag(xorurl_bytes)])])

from_xorurl(xorurl) ==
    Let([parts \in {SafeUrlPartsParse(xorurl)} |->
        IF ~parts.ok THEN parts
        ELSE Let([decoded \in {decode(parts.val.tld)} |->
                 IF ~decoded.ok
                 THEN Err("InvalidXorUrl", "Failed to decode XOR-URL", <<>>)
                 ELSE Let([body \in {DecodeBody(decoded.bytes)} |->
                          IF ~body.ok THEN body
                          ELSE new([xorname         |-> body.val.xorname,
                                    nrs_host        |-> None,
                                    type_tag        |-> body.val.type_tag,
                                    data_type       |-> body.val.data_type,
                                    content_type    |-> body.val.content_type,
                                    path            |-> Some(parts.val.path),
                                    sub_names       |-> Some(parts.val.sub_names),
                                    query_string    |-> Some(parts.val.query_string),
                                    fragment        |-> Some(parts.val.fragment),
                                    content_version |-> None])])])])

\* from_url with a bug: when both decodings fail the error of from_xorurl is returned
\* from_url with a bug: the alias form is not tried for a label of another version
from_url_reporting_version(u) ==
    Let([enc \in {from_xorurl(u)} |->
        IF enc.ok THEN enc
        ELSE IF enc.msg = "Invalid or unsupported XOR-URL encoding version" THEN enc
        ELSE from_nrsurl(u)])

from_url_keeping_first_error(u) ==
    Let([enc \in {from_xorurl(u)} |->
        IF enc.ok THEN enc
        ELSE Let([nrs \in {from_nrsurl(u)} |->
                 IF nrs.ok THEN nrs ELSE enc])])

from_url(u) ==
    Let([enc \in {from_xorurl(u)} |->
        IF enc.ok THEN enc ELSE from_nrsurl(u)])

(***************************************************************************)
(* SafeUrl: serialization                                                  *)
(***************************************************************************)
\* u64::leading_zeros()
leading_zeros(tag) == FirstOf(BitsOf(tag, 8), {1}) - 1

\* TypeTagBytes with a bug: the count of leading zero bytes is rounded up
TypeTagBytesRoundedUp(tag) ==
    Let([start_byte \in {(leading_zeros(tag) + 7) \div 8} |->
        SubSeq(tag, start_byte + 1, 8)])

\* the non-zero bytes of the type tag: to_be_bytes()[start_byte..]
TypeTagBytes(tag) ==
    Let([start_byte \in {leading_zeros(tag) \div 8} |->
        SubSeq(tag, start_byte + 1, 8)])

\* Ok(code) of a content type, or Err for an unregistered media type
ContentTypeCode(content_type) ==
    IF content_type.kind # "MediaType"
    THEN Ok((CHOOSE i \in 1..4 : FixedContentTypes[i] = content_type.kind) - 1)
    ELSE IF content_type.media \in DOMAIN MEDIA_TYPE_CODES
    THEN Ok(MEDIA_TYPE_CODES[content_type.media])
    ELSE Err("Unexpected", "Failed to encode Media-type", <<content_type.media>>)

\* cid_vec of host_to_base, for a content type that has a code
CidVec(self) ==
    <<XOR_URL_VERSION_1>>
        \o <<ContentTypeCode(self.content_type).val \div 256, ContentTypeCode(self.content_type).val % 256>>
        \o <<DataTypeCode(self.data_type)>>
        \o self.xorname
        \o TypeTagBytes(self.type_tag)

host_to_base(self, base) ==
    IF ~ContentTypeCode(self.content_type).ok THEN ContentTypeCode(self.content_type)
    ELSE Let([tld \in {encode(base, CidVec(self))} |->
         Let([sub_names \in {IF self.sub_names # <<>>
                             THEN Join(self.sub_names, <<".">>) \o <<".">>
                             ELSE <<>>} |->
             Ok(sub_names \o tld)])])

\* to_base with a bug: the fragment is not written
to_base_without_fragment(self, base) ==
    Let([host \in {host_to_base(self, base)} |->
        IF ~host.ok THEN host
        ELSE Ok(SAFE_URL_PROTOCOL \o host.val \o self.path
                    \o query_string_with_separator(self))])

to_base(self, base) ==
    Let([host \in {host_to_base(self, base)} |->
        IF ~host.ok THEN host
        ELSE Ok(SAFE_URL_PROTOCOL \o host.val \o self.path
                    \o query_string_with_separator(self) \o fragment_with_separator(self))])

to_xorurl_string(self) ==
    Let([s \in {to_base(self, DEFAULT_XORURL_BASE)} |->
        IF s.ok THEN s.val ELSE <<>>])

to_nrsurl_string(self) ==
    IF ~is_nrs(self) THEN None
    ELSE Some(SAFE_URL_PROTOCOL \o self.nrs_host \o self.path
                  \o query_string_with_separator(self) \o fragment_with_separator(self))

\* to_string with a bug: the resource form is written also when an alias host is set
to_string_resource_form(self) == Ok(to_xorurl_string(self))

\* Display::fmt, so to_string(): Ok(text) or Err(fmt::Error)
to_string(self) ==
    IF is_nrs(self)
    THEN IF to_nrsurl_string(self) = None THEN Err("fmt::Error", "", <<>>)
         ELSE Ok(to_nrsurl_string(self)[1])
    ELSE Ok(to_xorurl_string(self))

validate(self) ==
    Let([s \in {to_string(self)} |->
    Let([r \in {from_url(s.val)} |->
        IF r.ok THEN [ok |-> TRUE] ELSE r])])


(***************************************************************************)
(* Inputs of the operations                                                *)
(***************************************************************************)
\* largest content version passed to set_content_version
MaxVersion == 1

\* XorName(*b"12345678901234567890123456789012")
TestXorName == [i \in 1..32 |-> 48 + (i % 10)]

Keys == {<<"v">>, <<"k">>}

Values == {<<"5">>, <<"a", " ", "b">>}

\* query strings and the decoded pairs they stand for
QueryFixtures ==
    <<[text |-> <<>>, pairs |-> <<>>],
      [text |-> <<"k", "=", "a", "+", "b", "&", "j", "=", "1", "&", "k", "=", "c", "%", "2", "0", "d">>,
       pairs |-> << <<<<"k">>, <<"a", " ", "b">>>>, <<<<"j">>, <<"1">>>>, <<<<"k">>, <<"c", " ", "d">>>> >>],
      [text |-> <<"v", "=", "1", "&", "k", "=", "x", "&", "v", "=", "7">>,
       pairs |-> << <<<<"v">>, <<"1">>>>, <<<<"k">>, <<"x">>>>, <<<<"v">>, <<"7">>>> >>],
      [text |-> <<"v", "=", "x">>, pairs |-> << <<<<"v">>, <<"x">>>> >>],
      [text |-> <<"j", "&", "&", "k", "=", "&", "%", "7", "6", "=", "3">>,
       pairs |-> << <<<<"j">>, <<>>>>, <<<<"k">>, <<>>>>, <<<<"v">>, <<"3">>>> >>]>>

Queries == {QueryFixtures[i].text : i \in 1..Len(QueryFixtures)}

Paths == {<<>>, <<"p", " ", "q">>}

Fragments == {<<>>, <<"f">>}

Versions == {None} \cup {Some(n) : n \in 0..MaxVersion}

\* the arguments of SafeUrl::new for a bare resource-form URL
XorArgs(xorname, type_tag) ==
    [xorname |-> xorname, nrs_host |-> None, type_tag |-> type_tag,
     data_type |-> "PublishedImmutableData", content_type |-> Fixed("Raw"),
     path |-> None, sub_names |-> None, query_string |-> None, fragment |-> None,
     content_version |-> None]

\* the SafeUrl value the setters start from: SafeUrl::from_url("safe://myname")
InitUrls == {from_url(<<"s", "a", "f", "e", ":", "/", "/", "m", "y", "n", "a", "m", "e">>).val}

Mutators == {"set_query_key", "set_query_string", "set_content_version", "set_path", "set_fragment"}

(***************************************************************************)
(* The state machine: url is the SafeUrl, op the last call made on it      *)
(* (its name, arguments and result, and the SafeUrl it was made on).       *)
(***************************************************************************)
Init ==
    /\ url \in InitUrls
    /\ op = [name |-> "new", ok |-> TRUE, pre |-> url]

SetQueryKey(key, val) ==
    \E r \in {set_query_key(url, key, val)} :
        /\ url' = r.self
        /\ op' = [name |-> "set_query_key", key |-> key, val |-> val, ok |-> r.ok, pre |-> url]

SetQueryString(query) ==
    \E r \in {set_query_string(url, query)} :
        /\ url' = r.self
        /\ op' = [name |-> "set_query_string", query |-> query, ok |-> r.ok, pre |-> url]

SetContentVersion(version) ==
    /\ url' = set_content_version(url, version)
    /\ op' = [name |-> "set_content_version", version |-> version, ok |-> TRUE, pre |-> url]

SetPath(path) ==
    /\ url' = set_path(url, path)
    /\ op' = [name |-> "set_path", path |-> path, ok |-> TRUE, pre |-> url]

SetFragment(fragment) ==
    /\ url' = set_fragment(url, fragment)
    /\ op' = [name |-> "set_fragment", fragment |-> fragment, ok |-> TRUE, pre |-> url]

\* query_key, query_key_first and query_key_last of one key
QueryKey(key) ==
    /\ op' = [name |-> "query_key", key |-> key, ok |-> TRUE, pre |-> url,
              all |-> query_key(url, key),
              first |-> query_key_first(url, key),
              last |-> query_key_last(url, key)]
    /\ UNCHANGED url

Next ==
    \/ \E key \in Keys, val \in {None} \cup {Some(v) : v \in Values} : SetQueryKey(key, val)
    \/ \E query \in Queries : SetQueryString(query)
    \/ \E version \in Versions : SetContentVersion(version)
    \/ \E path \in Paths : SetPath(path)
    \/ \E fragment \in Fragments : SetFragment(fragment)
    \/ \E key \in Keys : QueryKey(key)

Spec == Init /\ [][Next]_vars


(***************************************************************************)
(* Properties of the setters and of the query reads (specification Spec)   *)
(***************************************************************************)
\* content_version agrees with the reserved key of the query string
VersionInSync(u) ==
    LET last == query_key_last(u, URL_VERSION_QUERY_NAME)
    IN  IF last = None THEN u.content_version = None
        ELSE /\ ParseU64(last[1]).ok
             /\ u.content_version = Some(ParseU64(last[1]).val)

\* C1: whenever a mutator returns successfully, content_version is None exactly when the
\* query string has no v key, and otherwise is the u64 parse of its last v value
C1_VersionQuerySync == (op.name \in Mutators /\ op.ok) => VersionInSync(url)

\* C2: set_query_key("v", Some(s)) with s not a u64 returns an error and leaves
\* query_string and content_version as they were before the call
C2_FailedSetKeepsState ==
    (/\ op.name = "set_query_key"
     /\ op.key = URL_VERSION_QUERY_NAME
     /\ op.val # None
     /\ ~ParseU64(op.val[1]).ok)
    => (/\ ~op.ok
        /\ url.query_string = op.pre.query_string
        /\ url.content_version = op.pre.content_version)

\* the pairs without those of key
WithoutKey(pairs, key) == SelectSeq(pairs, LAMBDA kv : kv[1] # key)

\* one pair (key, value) at the first occurrence of key, or at the end; no other pair of key
WithKeySet(pairs, key, value) ==
    LET at == FirstOf([i \in 1..Len(pairs) |-> pairs[i][1]], {key})
    IN  WithoutKey(SubSeq(pairs, 1, at - 1), key)
            \o << <<key, value>> >>
            \o WithoutKey(SubSeq(pairs, at + 1, Len(pairs)), key)

\* C8: after set_query_key(key, Some(value)) the decoded pairs are the old ones with every
\* occurrence of key replaced by one pair (key, value) at the place of the first occurrence
\* (at the end when key was absent), the pairs of the other keys unchanged and in order
C8_SetQueryKeyReplaces ==
    (op.name = "set_query_key" /\ op.val # None /\ op.ok)
    => query_pairs(url) = WithKeySet(query_pairs(op.pre), op.key, op.val[1])

\* the key was set where it occurred twice, with a pair of another key in between
C8_Witness ==
    /\ op.name = "set_query_key" /\ op.val # None /\ op.ok
    /\ Len(query_key(op.pre, op.key)) >= 2
    /\ \E i, j, k \in 1..Len(query_pairs(op.pre)) :
          /\ i < j /\ j < k
          /\ query_pairs(op.pre)[i][1] = op.key
          /\ query_pairs(op.pre)[j][1] # op.key
          /\ query_pairs(op.pre)[k][1] = op.key

\* C9: after set_query_key(key, None) no pair of key is left and the pairs of the other keys
\* are unchanged and in order; when no pair is left the query string is empty and the
\* serialized URL has no '?'
C9_SetQueryKeyRemoves ==
    (op.name = "set_query_key" /\ op.val = None /\ op.ok)
    => /\ query_pairs(url) = WithoutKey(query_pairs(op.pre), op.key)
       /\ query_pairs(url) = <<>> =>
            /\ url.query_string = <<>>
            /\ to_string(url).ok
            /\ "?" \notin Range(to_string(url).val)

\* a key that occurred twice was removed
C9_Witness ==
    /\ op.name = "set_query_key" /\ op.val = None /\ op.ok
    /\ Len(query_key(op.pre, op.key)) >= 2

\* the values of key among the pairs, in order
ValuesOf(pairs, key) ==
    LET hits == SelectSeq(pairs, LAMBDA kv : kv[1] = key)
    IN  [i \in 1..Len(hits) |-> hits[i][2]]

C11_SetContentVersion ==
    op.name = "set_content_version"
    => LET before == query_pairs(op.pre)
           after  == query_pairs(url)
       IN  /\ url.content_version = op.version
           /\ WithoutKey(after, URL_VERSION_QUERY_NAME) = WithoutKey(before, URL_VERSION_QUERY_NAME)
           /\ op.version = None => ValuesOf(after, URL_VERSION_QUERY_NAME) = <<>>
           /\ op.version # None =>
                /\ Len(ValuesOf(after, URL_VERSION_QUERY_NAME)) = 1
                /\ Range(ValuesOf(after, URL_VERSION_QUERY_NAME)[1]) \subseteq Digits
                /\ DecimalValue(ValuesOf(after, URL_VERSION_QUERY_NAME)[1]) = op.version[1]
                /\ ValuesOf(before, URL_VERSION_QUERY_NAME) = <<>>
                     => after[Len(after)][1] = URL_VERSION_QUERY_NAME

\* a version was set over a query string that held two v pairs around a pair of another key
C11_Witness ==
    /\ op.name = "set_content_version" /\ op.version # None
    /\ Len(query_key(op.pre, URL_VERSION_QUERY_NAME)) >= 2
    /\ Len(query_pairs(url)) >= 2

\* C12: set_query_string(q) succeeds exactly when q has no v pair or its last v value
\* parses as u64; on success the query string is q, content_version is the u64 of the
\* last v value of q (None when q has no v pair) and no other field has changed
C12_SetQueryString ==
    op.name = "set_query_string"
    => \A i \in 1..Len(QueryFixtures) :
         op.query = QueryFixtures[i].text
         => LET vs == ValuesOf(QueryFixtures[i].pairs, URL_VERSION_QUERY_NAME)
            IN  /\ op.ok <=> (vs = <<>> \/ ParseU64(vs[Len(vs)]).ok)
                /\ op.ok =>
                     url = [op.pre EXCEPT
                              !.query_string = op.query,
                              !.content_version =
                                  IF vs = <<>> THEN None ELSE Some(ParseU64(vs[Len(vs)]).val)]

\* a query string with two different v values replaced one that had another version
C12_Witness ==
    /\ op.name = "set_query_string" /\ op.ok
    /\ Len(query_key(url, URL_VERSION_QUERY_NAME)) >= 2
    /\ query_key_first(url, URL_VERSION_QUERY_NAME) # query_key_last(url, URL_VERSION_QUERY_NAME)
    /\ op.pre.content_version # url.content_version
    /\ op.pre.query_string # <<>>

\* the fields that no setter writes
FixedFields(u) ==
    <<u.encoding_version, u.xorname, u.nrs_host, u.type_tag, u.data_type, u.content_type,
      u.sub_names>>

\* C26: no mutator, whether it succeeds or fails, changes encoding_version, xorname,
\* nrs_host, type_tag, data_type, content_type or sub_names; set_path changes only path;
\* set_fragment changes only fragment; set_query_key with a key other than v never fails
\* and leaves content_version unchanged
C26_SetterFrame ==
    /\ op.name \in Mutators => FixedFields(url) = FixedFields(op.pre)
    /\ op.name = "set_path" => url = [op.pre EXCEPT !.path = url.path]
    /\ op.name = "set_fragment" => url = [op.pre EXCEPT !.fragment = op.fragment]
    /\ (op.name = "set_query_key" /\ op.key # URL_VERSION_QUERY_NAME) =>
         /\ op.ok
         /\ url.content_version = op.pre.content_version
         /\ url = [op.pre EXCEPT !.query_string = url.query_string]

\* set_fragment changed the fragment of a SafeUrl that has a path, a query string and a
\* content version
C26_Witness ==
    /\ op.name = "set_fragment"
    /\ op.pre.fragment # url.fragment
    /\ op.pre.path # <<>>
    /\ op.pre.query_string # <<>>
    /\ op.pre.content_version # None
    /\ url.path = op.pre.path

\* C29: a set_query_string(q) that fails, the last v value in q not being a u64, leaves
\* query_string and content_version as they were before the call
C29_FailedSetQueryStringKeepsState ==
    (op.name = "set_query_string" /\ ~op.ok)
    => /\ url.query_string = op.pre.query_string
       /\ url.content_version = op.pre.content_version
       /\ url = op.pre
       /\ LET vs == ValuesOf(query_pairs_internal(op.query), URL_VERSION_QUERY_NAME)
          IN  vs # <<>> /\ ~ParseU64(vs[Len(vs)]).ok

\* set_query_string failed on a SafeUrl that had a query string and a content version
C29_Witness ==
    /\ op.name = "set_query_string" /\ ~op.ok
    /\ op.pre.query_string # <<>>
    /\ op.pre.content_version # None
    /\ op.query # op.pre.query_string
    /\ url = op.pre



(***************************************************************************)
(* Specification SpecCodec: serialization of constructed SafeUrls and      *)
(* parsing of what was serialized. A parsed SafeUrl is a new value, kept   *)
(* in op.res; the receiver url is not touched.                             *)
(***************************************************************************)
\* 0xFFFFFFFFFFFFFFFF
MaxTypeTag == [i \in 1..8 |-> 255]

TypeTags ==
    {U64(0), U64(1), U64(63), NRS_MAP_TYPE_TAG, <<0, 0, 166, 50, 60, 77, 74, 50>>,
     <<1, 0, 0, 0, 0, 0, 0, 0>>, MaxTypeTag}

\* path, sub-names, query string, fragment and content version passed to new()
Extras ==
    {[path |-> None, sub_names |-> None, query_string |-> None, fragment |-> None,
      content_version |-> None],
     [path |-> Some(<<"/", "d", "i", "r", "1", "/", "d", "i", "r", "2">>), sub_names |-> Some(<<<<"s", "u", "b", "n", "a", "m", "e">>>>), query_string |-> Some(<<"k", "1", "=", "v", "1", "&", "k", "2", "=", "v", "2">>),
      fragment |-> Some(<<"m", "y", "f", "r", "a", "g", "m", "e", "n", "t">>), content_version |-> Some(5)],
     [path |-> Some(<<"/", "a", " ", "b">>), sub_names |-> None, query_string |-> None, fragment |-> None,
      content_version |-> None]}

NewArgs(xorname, nrs_host, type_tag, data_type, content_type, e) ==
    [xorname |-> xorname, nrs_host |-> nrs_host, type_tag |-> type_tag,
     data_type |-> data_type, content_type |-> content_type,
     path |-> e.path, sub_names |-> e.sub_names, query_string |-> e.query_string,
     fragment |-> e.fragment, content_version |-> e.content_version]

ResourceArgs ==
    {NewArgs(TestXorName, None, t, d, c, e) :
        t \in TypeTags,
        d \in {"PublishedImmutableData", "PublishedSeqAppendOnlyData"},
        c \in {Fixed("Raw"), Fixed("FilesContainer"), MediaType("text/html")},
        e \in Extras}

\* a host whose top-level label is itself an encoded locator
LocatorLabel == host_to_base(new(XorArgs(TestXorName, U64(0))).val, "Base32z").val

AliasArgs ==
    {NewArgs(sha3_256(Split(h, ".")[Len(Split(h, "."))]), Some(h), t[1], t[2], t[3], e) :
        h \in {<<"a">>, <<"s", "u", "b", ".", "a">>, LocatorLabel},
        t \in {<<NRS_MAP_TYPE_TAG, "PublishedSeqAppendOnlyData", Fixed("NrsMapContainer")>>,
               <<U64(0), "SafeKey", Fixed("Raw")>>},
        e \in Extras}

CodecUrls == {new(a).val : a \in {b \in ResourceArgs \cup AliasArgs : new(b).ok}}

InitCodec ==
    /\ url \in CodecUrls
    /\ op = [name |-> "new", ok |-> TRUE, pre |-> url]

\* the fields of op that describe an error, empty on success
ErrorOf(r) ==
    IF r.ok THEN [type |-> "", msg |-> "", detail |-> <<>>]
    ELSE [type |-> r.type, msg |-> r.msg, detail |-> r.detail]

HostToBase(base) ==
    \E r \in {host_to_base(url, base)} :
        /\ op' = [name |-> "host_to_base", base |-> base, ok |-> r.ok,
                  out |-> IF r.ok THEN r.val ELSE <<>>, pre |-> url]
        /\ UNCHANGED url

ToBase(base) ==
    \E r \in {to_base(url, base)} :
        /\ op' = [name |-> "to_base", base |-> base, ok |-> r.ok,
                  out |-> IF r.ok THEN r.val ELSE <<>>, pre |-> url]
        /\ UNCHANGED url

DisplayFmt ==
    \E r \in {to_string(url)} :
        /\ op' = [name |-> "to_string", base |-> DEFAULT_XORURL_BASE, ok |-> r.ok,
                  out |-> IF r.ok THEN r.val ELSE <<>>, pre |-> url]
        /\ UNCHANGED url

ToNrsurlString ==
    /\ op' = [name |-> "to_nrsurl_string", ok |-> TRUE, out |-> to_nrsurl_string(url),
              pre |-> url]
    /\ UNCHANGED url

\* from_url on the text that the last call serialized
FromSerialized ==
    /\ op.name \in {"to_base", "to_string"}
    /\ op.ok
    /\ \E r \in {from_url(op.out)} :
           op' = [name |-> "from_url", arg |-> op.out, from |-> op.name, base |-> op.base,
                  ok |-> r.ok, res |-> IF r.ok THEN Some(r.val) ELSE None,
                  error |-> ErrorOf(r), pre |-> url]
    /\ UNCHANGED url

NextCodec ==
    \/ \E base \in XorUrlBase : HostToBase(base)
    \/ \E base \in XorUrlBase : ToBase(base)
    \/ DisplayFmt
    \/ ToNrsurlString
    \/ FromSerialized

SpecCodec == InitCodec /\ [][NextCodec]_vars


(***************************************************************************)
(* Claims about serialization and parsing, checked under SpecCodec.        *)
(***************************************************************************)
NameChars == AlphaNum \cup {"-", "_"}

\* every label is non-empty and made of letters, digits, '-' and '_'
LabelsWellFormed(labels) ==
    \A i \in 1..Len(labels) : labels[i] # <<>> /\ Range(labels[i]) \subseteq NameChars

\* empty, or '/'-led components that are non-empty, unreserved and not dot segments
PathWellFormed(path) ==
    \/ path = <<>>
    \/ /\ Head(path) = "/"
       /\ \A seg \in Range(Split(Tail(path), "/")) :
            /\ seg # <<>>
            /\ seg \notin {<<".">>, <<".", ".">>}
            /\ Range(seg) \subseteq UrlUnreserved

\* a query string without '#' and without a character the URL parser would encode
QueryWellFormed(query_string) == Range(query_string) \cap (QueryEncodeSet \cup {"#"}) = {}

\* a fragment without a character the URL parser would encode
FragmentWellFormed(fragment) == Range(fragment) \cap FragmentEncodeSet = {}

WellFormedResource(u) ==
    /\ ~is_nrs(u)
    /\ LabelsWellFormed(u.sub_names)
    /\ PathWellFormed(u.path)
    /\ QueryWellFormed(u.query_string)
    /\ FragmentWellFormed(u.fragment)
    /\ VersionInSync(u)

\* the top-level label of a host
TopLabel(host) == Split(host, ".")[Len(Split(host, "."))]

\* C3: for a well-formed resource-form SafeUrl x and each of the three bases,
\* from_url(x.to_base(base)) succeeds and returns a value equal to x.
C3_ResourceRoundTrip ==
    (op.name = "from_url" /\ op.from = "to_base" /\ WellFormedResource(op.pre))
        => (op.ok /\ op.res = Some(op.pre))

\* C4: for an alias-form SafeUrl x that new() accepted, with any type_tag, data_type
\* and content_type, from_url(x.to_string()) succeeds and returns a value equal to x.
C4_AliasRoundTrip ==
    (op.name = "from_url" /\ op.from = "to_string" /\ is_nrs(op.pre))
        => (op.ok /\ op.res = Some(op.pre))

\* the top-level label of the host is not an encoded locator that from_xorurl accepts
NotALocator(host) ==
    LET d == decode(TopLabel(host))
    IN  ~d.ok \/ ~DecodeBody(d.bytes).ok

WellFormedAlias(u) ==
    /\ is_nrs(u)
    /\ u.type_tag = NRS_MAP_TYPE_TAG
    /\ u.data_type = "PublishedSeqAppendOnlyData"
    /\ u.content_type = Fixed("NrsMapContainer")
    /\ LabelsWellFormed(Split(u.nrs_host, "."))
    /\ NotALocator(u.nrs_host)
    /\ PathWellFormed(u.path)
    /\ QueryWellFormed(u.query_string)
    /\ FragmentWellFormed(u.fragment)
    /\ VersionInSync(u)

\* C4 (amended): for an alias-form SafeUrl x with the name-resolution typing
\* (type_tag NRS_MAP_TYPE_TAG, PublishedSeqAppendOnlyData, NrsMapContainer), a
\* well-formed host whose top-level label is not an encoded locator, and path,
\* query and fragment as the URL parser returns them, from_url(x.to_string())
\* succeeds and returns a value equal to x.
C4_NrsTypedAliasRoundTrip ==
    (op.name = "from_url" /\ op.from = "to_string" /\ WellFormedAlias(op.pre))
        => (op.ok /\ op.res = Some(op.pre))

C4_Witness ==
    /\ op.name = "from_url"
    /\ op.from = "to_string"
    /\ WellFormedAlias(op.pre)
    /\ op.pre.sub_names # <<>>
    /\ op.pre.query_string # <<>>
    /\ op.res = Some(op.pre)

\* the binary body that host_to_base encoded in its top-level label
EncodedBody(host) == decode(TopLabel(host)).bytes

\* number of bytes of the big-endian type tag from its first non-zero byte on
SignificantBytes(tag) == 8 - LeadingCount(tag, 0)

\* C6: the body that host_to_base encodes is 36 + k bytes long, k the number of
\* bytes of the big-endian type_tag from its first non-zero byte on: 36 bytes for
\* tag 0, 37 for tag 1, 44 for the maximum tag, always within 36..44.
C6_TagCompaction ==
    (op.name = "host_to_base" /\ op.ok /\ ~is_nrs(url)) =>
        /\ Len(EncodedBody(op.out)) = 36 + SignificantBytes(url.type_tag)
        /\ Len(EncodedBody(op.out)) \in 36..44
        /\ url.type_tag = U64(0) => Len(EncodedBody(op.out)) = 36
        /\ url.type_tag = U64(1) => Len(EncodedBody(op.out)) = 37
        /\ url.type_tag = MaxTypeTag => Len(EncodedBody(op.out)) = 44
        /\ SubSeq(EncodedBody(op.out), 37, Len(EncodedBody(op.out)))
             = SubSeq(url.type_tag, 9 - SignificantBytes(url.type_tag), 8)

C6_Witness ==
    /\ op.name = "host_to_base"
    /\ op.ok
    /\ ~is_nrs(url)
    /\ url.type_tag = U64(1)
    /\ Len(EncodedBody(op.out)) = 37

\* C7: decoding the type tag of a body that host_to_base compacted yields the
\* type_tag of the encoded SafeUrl, for every tag encoded.
C7_TypeTagRoundTrip ==
    (op.name = "host_to_base" /\ op.ok /\ ~is_nrs(url)) =>
        DecodeTypeTag(EncodedBody(op.out)) = url.type_tag

C7_Witness ==
    /\ op.name = "host_to_base"
    /\ op.ok
    /\ ~is_nrs(url)
    /\ SignificantBytes(url.type_tag) = 6
    /\ DecodeTypeTag(EncodedBody(op.out)) = url.type_tag

\* path, then '?' and the query string when it is not empty, then '#' and the fragment
\* when it is not empty
TailText(u) ==
    u.path
        \o (IF u.query_string = <<>> THEN <<>> ELSE <<"?">> \o u.query_string)
        \o (IF u.fragment = <<>> THEN <<>> ELSE <<"#">> \o u.fragment)

\* C19: to_nrsurl_string() is None exactly when nrs_host is empty and is otherwise
\* scheme + nrs_host + path + query + fragment; to_string() is that alias-form string
\* when nrs_host is set and the resource-form string in the default base otherwise;
\* '?' and '#' are written only before a non-empty query string and fragment
C19_FormSelection ==
    /\ op.name = "to_nrsurl_string" =>
         /\ op.out = None <=> url.nrs_host = <<>>
         /\ url.nrs_host # <<>> =>
              op.out = Some(SAFE_URL_PROTOCOL \o url.nrs_host \o TailText(url))
    /\ op.name = "to_string" =>
         /\ op.ok
         /\ url.nrs_host # <<>> =>
              op.out = SAFE_URL_PROTOCOL \o url.nrs_host \o TailText(url)
         /\ url.nrs_host = <<>> =>
              op.out = SAFE_URL_PROTOCOL \o host_to_base(url, "Base32z").val \o TailText(url)

\* to_string() wrote the alias form of a SafeUrl that has sub-names, a query string and
\* a fragment
C19_Witness ==
    /\ op.name = "to_string" /\ op.ok
    /\ is_nrs(url)
    /\ Len(Split(url.nrs_host, ".")) = 2
    /\ url.query_string # <<>> /\ url.fragment # <<>>
    /\ Contains(op.out, <<"?">> \o url.query_string \o <<"#">> \o url.fragment)


(***************************************************************************)
(* Specification SpecDecode: from_xorurl on the encodings of binary bodies *)
(* of chosen lengths and headers. The parsed SafeUrl is a new value, kept  *)
(* in op.res; the receiver url is not touched.                             *)
(***************************************************************************)
BodyLengths == {0, 1, 35, 36, 37, 40, 43, 44, 45, 46}

\* version byte, content-type code (two bytes) and data-type byte
Headers ==
    {<<1, 0, 0, 1>>,      \* version 1, Raw, PublishedImmutableData
     <<2, 0, 0, 1>>,      \* unsupported version
     <<1, 1, 0, 1>>,      \* content-type code 256, not registered
     <<1, 0, 0, 9>>,      \* data-type code 9, not known
     <<2, 1, 0, 9>>,      \* unsupported version, and neither code known
     <<1, 1, 0, 9>>,      \* neither code known
     <<1, 0, 4, 1>>,      \* MediaType("text/html")
     <<1, 0, 5, 1>>}      \* MediaType("text/css")

\* a body of n bytes: the header, the xorname, then non-zero tag bytes
BodyOf(header, n) ==
    SubSeq(header \o TestXorName \o [i \in 1..(n - 36) |-> 16 * i + i], 1, n)

\* and one body whose type tag is written with a leading zero byte
Bodies ==
    {BodyOf(h, n) : h \in Headers, n \in BodyLengths}
        \cup {<<1, 0, 0, 1>> \o TestXorName \o <<0, 5>>}

\* the URLs given to SafeUrlParts::parse, from_nrsurl and from_url: the encoded bodies,
\* then URLs with syntax errors, names, and locators with sub-names, path, query string
\* and fragment
DecodeTexts ==
    {SAFE_URL_PROTOCOL \o encode(base, body) : body \in Bodies, base \in XorUrlBase}
    \cup
    {<<"w", "i", "t", "h", "o", "u", "t", "s", "c", "h", "e", "m", "e">>,
     <<"h", "t", "t", "p", ":", "/", "/", "a", ".", ".", "b", "/", "/", "c">>,
     <<"h", "t", "t", "p", ":", "/", "/", "a", " ", "b">>,
     <<"s", "a", "f", "e", ":", "x">>,
     <<"s", "a", "f", "e", ":", "/", "/", "/", "p">>,
     <<"s", "a", "f", "e", ":", "/", "/", "/", "/", "c">>,
     <<"s", "a", "f", "e", ":", "/", "/", "a", " ", "b">>,
     <<"s", "a", "f", "e", ":", "/", "/", "a", ".", ".", "b", "/", "/", "c">>,
     <<"s", "a", "f", "e", ":", "/", "/", "a", ".", ".", "b">>,
     <<"s", "a", "f", "e", ":", "/", "/", "a", "/", "/">>,
     <<"s", "a", "f", "e", ":", "/", "/", "a", "/", "b", "/", "/", "c">>,
     <<"s", "a", "f", "e", ":", "/", "/", "m", "y", "n", "a", "m", "e">>,
     <<"s", "a", "f", "e", ":", "/", "/", "s", "u", "b", ".", "m", "y", "n", "a", "m", "e", "/", "p", "?", "k", "=", "x", "&", "v", "=", "3", "#", "f">>,
     <<"s", "a", "f", "e", ":", "/", "/", "x", ".", "y", ".", "m", "y", "n", "a", "m", "e", "/", "q", "?", "z", "=", "1">>,
     <<"s", "a", "f", "e", ":", "/", "/", ".", "a">>,
     <<"s", "a", "f", "e", ":", "/", "/", "m", "y", "n", "a", "m", "e", "?", "v", "=", "x">>,
     <<"s", "a", "f", "e", ":", "/", "/", "a", "?", "?", "k", "=", "b", "#", "#", "f">>}
        \cup {SAFE_URL_PROTOCOL \o t \o LocatorLabel \o u :
                 t \in {<<>>, <<"s", "u", "b", ".">>, <<".">>},
                 u \in {<<>>, <<"/">>, <<"/", "p", "/", "f">>, <<"/", "a", " ", "b">>, <<"?">>, <<"?", "k", "=", "1", "&", "v", "=", "2", "#", "f">>, <<"#">>}}

\* the slices that from_xorurl takes when called on xorurl
Reads(xorurl) ==
    Let([parts \in {SafeUrlPartsParse(xorurl)} |->
        IF ~parts.ok THEN <<>>
        ELSE Let([decoded \in {decode(parts.val.tld)} |->
                 IF ~decoded.ok THEN <<>> ELSE ByteAccesses(decoded.bytes)])])

\* each URL is decoded on its own, from the state in which no call has been made yet
FromXorUrl(body, base) ==
    /\ op.name = "new"
    /\ op' = Let([arg \in {SAFE_URL_PROTOCOL \o encode(base, body)} |->
             Let([r \in {from_xorurl(arg)} |->
                 [name |-> "from_xorurl", arg |-> arg, body |-> body, base |-> base,
                  ok |-> r.ok, res |-> IF r.ok THEN Some(r.val) ELSE None,
                  error |-> ErrorOf(r), reads |-> Reads(arg), from |-> "bytes",
                  pre |-> url]])])
    /\ UNCHANGED url

\* from_xorurl on a URL that is not an encoded body alone
FromXorUrlText(text) ==
    /\ op.name = "new"
    /\ op' = Let([r \in {from_xorurl(text)} |->
                 [name |-> "from_xorurl_of_text", arg |-> text, ok |-> r.ok,
                  res |-> IF r.ok THEN Some(r.val) ELSE None,
                  error |-> ErrorOf(r), reads |-> Reads(text), pre |-> url]])
    /\ UNCHANGED url

Parse(text) ==
    /\ op.name = "new"
    /\ op' = Let([r \in {SafeUrlPartsParse(text)} |->
                 [name |-> "parse", arg |-> text, ok |-> r.ok,
                  parts |-> IF r.ok THEN Some(r.val) ELSE None,
                  error |-> ErrorOf(r), pre |-> url]])
    /\ UNCHANGED url

FromNrsUrl(text) ==
    /\ op.name = "new"
    /\ op' = Let([r \in {from_nrsurl(text)} |->
                 [name |-> "from_nrsurl", arg |-> text, ok |-> r.ok,
                  res |-> IF r.ok THEN Some(r.val) ELSE None,
                  error |-> ErrorOf(r), pre |-> url]])
    /\ UNCHANGED url

FromUrlText(text) ==
    /\ op.name = "new"
    /\ op' = Let([r \in {from_url(text)} |->
                 [name |-> "from_url", arg |-> text, ok |-> r.ok,
                  res |-> IF r.ok THEN Some(r.val) ELSE None,
                  error |-> ErrorOf(r), pre |-> url]])
    /\ UNCHANGED url

\* new() for immutable data of a media type
NewMediaType(m) ==
    /\ op.name = "new"
    /\ op' = Let([r \in {new([XorArgs(TestXorName, U64(63)) EXCEPT !.content_type = MediaType(m)])} |->
                 [name |-> "new_with_media_type", arg |-> m, ok |-> r.ok,
                  res |-> IF r.ok THEN Some(r.val) ELSE None,
                  error |-> ErrorOf(r), pre |-> url]])
    /\ UNCHANGED url

\* to_base on the SafeUrl that the last call returned
ToBaseOf(base) ==
    /\ op.name \in {"from_url", "new_with_media_type"}
    /\ op.res # None
    /\ \E r \in {to_base(op.res[1], base)} :
           op' = [name |-> "to_base", from |-> op.name, arg |-> op.arg, val |-> op.res[1],
                  base |-> base, ok |-> r.ok, out |-> IF r.ok THEN r.val ELSE <<>>,
                  pre |-> url]
    /\ UNCHANGED url

\* from_xorurl on the text that to_base wrote for a SafeUrl made by new()
FromXorUrlOut ==
    /\ op.name = "to_base"
    /\ op.from = "new_with_media_type"
    /\ op.ok
    /\ \E r \in {from_xorurl(op.out)} :
           op' = [name |-> "from_xorurl", arg |-> op.out, body |-> CidVec(op.val),
                  base |-> op.base, ok |-> r.ok, res |-> IF r.ok THEN Some(r.val) ELSE None,
                  error |-> ErrorOf(r), reads |-> Reads(op.out), from |-> "to_base",
                  val |-> op.val, pre |-> url]
    /\ UNCHANGED url

NextDecode ==
    \/ \E body \in Bodies, base \in XorUrlBase : FromXorUrl(body, base)
    \/ \E text \in DecodeTexts : FromXorUrlText(text)
    \/ \E text \in DecodeTexts : Parse(text)
    \/ \E text \in DecodeTexts : FromNrsUrl(text)
    \/ \E text \in DecodeTexts : FromUrlText(text)
    \/ \E m \in {"text/html", "text/css", "garbage/trash"} : NewMediaType(m)
    \/ \E base \in XorUrlBase : ToBaseOf(base)
    \/ FromXorUrlOut

SpecDecode == Init /\ [][NextDecode]_vars

\* the bytes that from_xorurl decodes from the top-level label of its argument
DecodedBytes(arg) == decode(SafeUrlPartsParse(arg).val.tld).bytes

\* the label of the argument reaches the decoder whole
LabelDecoded(arg) ==
    /\ SafeUrlPartsParse(arg).ok
    /\ decode(SafeUrlPartsParse(arg).val.tld).ok

\* a supported version byte and known content-type and data-type codes
HeaderSupported(bytes) ==
    /\ bytes[1] = 1
    /\ 256 * bytes[2] + bytes[3] \in 0..3 \cup DOMAIN MEDIA_TYPE_STR
    /\ bytes[4] \in 0..8

\* C5: when the label of its argument decodes to n bytes, from_xorurl fails with
\* "encoded string too short" and n if n < 36, fails with "encoded string too long"
\* and n if n > 44, and accepts bodies of exactly 36 and exactly 44 bytes whose
\* version, content-type and data-type are supported.
C5_LengthBounds ==
    (op.name = "from_xorurl" /\ LabelDecoded(op.arg)) =>
        LET bytes == DecodedBytes(op.arg)
            n     == Len(bytes)
        IN  /\ "/" \notin Range(encode(op.base, op.body)) => bytes = op.body
            /\ n < 36 =>
                 /\ ~op.ok
                 /\ op.error.msg = "Invalid XOR-URL, encoded string too short"
                 /\ op.error.detail = <<n>>
            /\ n > 44 =>
                 /\ ~op.ok
                 /\ op.error.msg = "Invalid XOR-URL, encoded string too long"
                 /\ op.error.detail = <<n>>
            /\ (n \in {36, 44} /\ HeaderSupported(bytes)) => op.ok

C5_Witness ==
    /\ op.name = "from_xorurl"
    /\ Len(op.body) = 44
    /\ DecodedBytes(op.arg) = op.body
    /\ HeaderSupported(op.body)
    /\ op.ok

\* the errors of the crate that the decoding functions return
TypedErrors == {"InvalidXorUrl", "InvalidInput", "InvalidMediaType"}

\* the slice lies within its buffer
InBounds(slice) == 0 <= slice.from /\ slice.from <= slice.to /\ slice.to <= slice.of

\* C21: from_url, from_xorurl and from_nrsurl return a SafeUrl or a typed error; every
\* slice that from_xorurl takes (bytes 0, 1..3, 3, 4..36, the tail of type_tag_bytes from
\* 8 - (len - 36) on, and the tag bytes) lies within its buffer; and the host that
\* SafeUrlParts::parse splits has at least one label
C21_NoAbort ==
    /\ op.name \in {"from_url", "from_xorurl", "from_xorurl_of_text", "from_nrsurl"} =>
         /\ op.ok <=> op.res # None
         /\ ~op.ok => op.error.type \in TypedErrors
    /\ op.name \in {"from_xorurl", "from_xorurl_of_text"} =>
         /\ \A i \in 1..Len(op.reads) : InBounds(op.reads[i])
         /\ op.ok =>
              LET n == Len(DecodedBytes(op.arg))
              IN  op.reads = <<[of |-> n, from |-> 0, to |-> 1], [of |-> n, from |-> 1, to |-> 3],
                               [of |-> n, from |-> 3, to |-> 4], [of |-> n, from |-> 4, to |-> 36],
                               [of |-> 8, from |-> 8 - (n - 36), to |-> 8],
                               [of |-> n, from |-> 36, to |-> n]>>
    /\ (op.name = "parse" /\ op.ok) =>
         /\ Len(Split(op.parts[1].host, ".")) >= 1
         /\ Len(op.parts[1].sub_names) = Len(Split(op.parts[1].host, ".")) - 1
         /\ op.parts[1].tld = TopLabel(op.parts[1].host)

\* from_xorurl accepted a body of the largest length, whose tag fills type_tag_bytes
C21_Witness ==
    /\ op.name = "from_xorurl" /\ op.ok
    /\ Len(DecodedBytes(op.arg)) = XOR_URL_STR_MAX_LENGTH
    /\ Len(op.reads) = 6
    /\ op.reads[5].from = 0

\* the first check of SafeUrlParts::parse that a URL fails, in the order: general syntax,
\* scheme, missing host, empty subname in host, empty path component
FirstFailure(text) ==
    LET u == UrlParse(text)
    IN  IF ~u.ok THEN "syntax"
        ELSE IF u.scheme # <<"s", "a", "f", "e">> THEN "scheme"
        ELSE IF u.host = None THEN "host"
        ELSE IF Contains(u.host[1], <<".", ".">>) THEN "subname"
        ELSE IF Contains(u.path, <<"/", "/">>) THEN "path"
        ELSE "none"

\* C22: SafeUrlParts::parse succeeds only for a URL with scheme safe, a host, no ".." in
\* the host and no "//" in the path; otherwise it returns InvalidXorUrl, for the first
\* check that fails in the order general syntax, scheme, missing host, empty subname in
\* host, empty path component
C22_ParseChecks ==
    op.name = "parse" =>
        /\ op.ok <=> FirstFailure(op.arg) = "none"
        /\ ~op.ok => op.error.type = "InvalidXorUrl"
        /\ FirstFailure(op.arg) = "syntax" =>
             /\ op.error.msg = "Problem parsing the URL"
             /\ op.error.detail # <<"missing host">>
        /\ FirstFailure(op.arg) = "scheme" => op.error.msg = "invalid scheme"
        /\ FirstFailure(op.arg) = "host" =>
             /\ op.error.msg = "Problem parsing the URL"
             /\ op.error.detail = <<"missing host">>
        /\ FirstFailure(op.arg) = "subname" => op.error.msg = "host contains empty subname"
        /\ FirstFailure(op.arg) = "path" => op.error.msg = "path contains empty component"

\* parse reported the empty subname of a URL whose path has an empty component too
C22_Witness ==
    /\ op.name = "parse" /\ ~op.ok
    /\ op.error.msg = "host contains empty subname"
    /\ Contains(UrlParse(op.arg).path, <<"/", "/">>)

\* to_base was called, in the base of the label of s, on the resource-form SafeUrl that
\* from_url returned for s
ReserializedResource ==
    /\ op.name = "to_base"
    /\ op.from = "from_url"
    /\ ~is_nrs(op.val)
    /\ op.base = decode(SafeUrlPartsParse(op.arg).val.tld).base

CanonicalText(text) ==
    LET u     == UrlParse(text)
        bytes == DecodedBytes(text)
    IN  /\ StartsWith(text, SAFE_URL_PROTOCOL)
        /\ Range(text) \cap (PathEncodeSet \cup QueryEncodeSet \cup FragmentEncodeSet) = {}
        /\ PathWellFormed(u.path)
        /\ u.query # Some(<<>>)
        /\ u.fragment # Some(<<>>)
        /\ Len(bytes) > type_tag_offset => bytes[type_tag_offset + 1] # 0

C24_MediaTypeRegistry ==
    /\ op.name = "new_with_media_type" =>
         /\ op.ok <=> op.arg \in DOMAIN MEDIA_TYPE_CODES
         /\ ~op.ok =>
              /\ op.error.type = "InvalidMediaType"
              /\ op.error.detail = <<op.arg>>
         /\ op.ok => op.res[1].content_type = MediaType(op.arg)
    /\ (op.name = "from_xorurl" /\ LabelDecoded(op.arg)) =>
         LET bytes == DecodedBytes(op.arg)
             code  == 256 * bytes[2] + bytes[3]
         IN  (/\ Len(bytes) \in 36..44
              /\ bytes[1] = 1
              /\ code > 3
              /\ \A m \in DOMAIN MEDIA_TYPE_CODES : MEDIA_TYPE_CODES[m] # code)
             => /\ ~op.ok
                /\ op.error.type = "InvalidXorUrl"
                /\ op.error.msg = "Invalid content type encoded in the XOR-URL string"
                /\ op.error.detail = <<code>>
    /\ (/\ op.name = "from_xorurl"
        /\ op.from = "to_base"
        /\ LabelDecoded(op.arg)
        /\ DecodedBytes(op.arg) = op.body) =>
         /\ op.ok
         /\ op.val.content_type.kind = "MediaType"
         /\ op.res[1].content_type = op.val.content_type

\* the encoding of a SafeUrl of media type text/css was decoded
C24_Witness ==
    /\ op.name = "from_xorurl" /\ op.from = "to_base" /\ op.ok
    /\ DecodedBytes(op.arg) = op.body
    /\ op.val.content_type = MediaType("text/css")
    /\ op.res[1].content_type = MediaType("text/css")

\* the message of the first check of from_xorurl that a URL fails, in the order: parsing
\* of the URL, text decoding of the label, too short, too long, version byte,
\* content-type code, data-type code; "" when it passes them all
FirstDecodeFailure(text) ==
    LET parts == SafeUrlPartsParse(text)
        bytes == DecodedBytes(text)
        n     == Len(bytes)
    IN  IF ~parts.ok THEN parts.msg
        ELSE IF ~decode(parts.val.tld).ok THEN "Failed to decode XOR-URL"
        ELSE IF n < 36 THEN "Invalid XOR-URL, encoded string too short"
        ELSE IF n > 44 THEN "Invalid XOR-URL, encoded string too long"
        ELSE IF bytes[1] # 1 THEN "Invalid or unsupported XOR-URL encoding version"
        ELSE IF 256 * bytes[2] + bytes[3] \notin 0..3 \cup DOMAIN MEDIA_TYPE_STR
        THEN "Invalid content type encoded in the XOR-URL string"
        ELSE IF bytes[4] \notin 0..8 THEN "Invalid SAFE data type encoded in the XOR-URL string"
        ELSE ""

\* C25: from_xorurl reports the first failure in the order text decoding of the label,
\* too short, too long, version byte, content-type code, data-type code: a body under 36
\* or over 44 bytes with an unsupported version byte reports the length error, and a
\* wrong version is reported before an unknown content-type or data-type code
C25_DecodeOrder ==
    (op.name \in {"from_xorurl", "from_xorurl_of_text"} /\ FirstDecodeFailure(op.arg) # "")
    => /\ ~op.ok
       /\ op.error.type = "InvalidXorUrl"
       /\ op.error.msg = FirstDecodeFailure(op.arg)

\* a body with an unsupported version byte and unknown content-type and data-type codes
\* was refused for its version
C25_Witness ==
    /\ op.name = "from_xorurl" /\ ~op.ok
    /\ Len(op.body) = 40
    /\ DecodedBytes(op.arg) = op.body
    /\ op.body[1] = 2 /\ op.body[2] = 1 /\ op.body[4] = 9
    /\ op.error.msg = "Invalid or unsupported XOR-URL encoding version"
    /\ op.error.detail = <<2>>

\* the messages of the errors that from_xorurl raises on the bytes of a label
BinaryLabelErrors ==
    {"Failed to decode XOR-URL",
     "Invalid XOR-URL, encoded string too short",
     "Invalid XOR-URL, encoded string too long",
     "Invalid or unsupported XOR-URL encoding version",
     "Invalid content type encoded in the XOR-URL string",
     "Invalid SAFE data type encoded in the XOR-URL string"}

\* C27: from_url(u) succeeds exactly when from_nrsurl(u) succeeds, every URL that
\* from_xorurl accepts being accepted by from_nrsurl too, and from_url never returns one
\* of the errors of a binary label; a URL whose label is a malformed binary locator is
\* accepted as an alias-form URL
C27_FromUrlFallsBack ==
    /\ op.name = "from_url" =>
         /\ op.ok = from_nrsurl(op.arg).ok
         /\ from_xorurl(op.arg).ok => from_nrsurl(op.arg).ok
         /\ op.error.msg \notin BinaryLabelErrors
         /\ (~from_xorurl(op.arg).ok /\ from_nrsurl(op.arg).ok) =>
              /\ op.ok
              /\ op.res[1].nrs_host # <<>>
    /\ op.name \in {"from_xorurl", "from_xorurl_of_text"} =>
         (op.ok => from_nrsurl(op.arg).ok)

\* from_url accepted as alias-form a URL whose label decodes to bytes that from_xorurl
\* rejects
C27_Witness ==
    /\ op.name = "from_url" /\ op.ok
    /\ LabelDecoded(op.arg)
    /\ from_xorurl(op.arg).msg \in BinaryLabelErrors
    /\ op.res[1].nrs_host # <<>>

\* the host of a URL text: what follows "safe://" up to the first '/', '?' or '#'
HostText(text) ==
    LET rest == SubSeq(text, Len(SAFE_URL_PROTOCOL) + 1, Len(text))
    IN  SubSeq(rest, 1, FirstOf(rest, {"/", "?", "#"}) - 1)

\* C30: every SafeUrl returned by from_nrsurl is alias-form: nrs_host is the full host
\* of the URL, sub_names are the labels of the host before the last one, xorname is the
\* hash of the last label alone, type_tag is NRS_MAP_TYPE_TAG, data_type is
\* PublishedSeqAppendOnlyData and content_type is NrsMapContainer
C30_FromNrsUrlShape ==
    (op.name = "from_nrsurl" /\ op.ok) =>
        LET labels == Split(HostText(op.arg), ".")
            x      == op.res[1]
        IN  /\ StartsWith(op.arg, SAFE_URL_PROTOCOL)
            /\ x.nrs_host = HostText(op.arg)
            /\ x.sub_names = SubSeq(labels, 1, Len(labels) - 1)
            /\ x.xorname = sha3_256(labels[Len(labels)])
            /\ x.type_tag = NRS_MAP_TYPE_TAG
            /\ x.data_type = "PublishedSeqAppendOnlyData"
            /\ x.content_type = Fixed("NrsMapContainer")

\* from_nrsurl returned a SafeUrl for a URL with two sub-names, a path and a query
\* string, with the xorname that the bare top-level label gets
C30_Witness ==
    /\ op.name = "from_nrsurl" /\ op.ok
    /\ Len(op.res[1].sub_names) = 2
    /\ op.res[1].path # <<>>
    /\ op.res[1].query_string # <<>>
    /\ op.res[1].xorname
         = from_nrsurl(<<"s", "a", "f", "e", ":", "/", "/", "m", "y", "n", "a", "m", "e">>).val.xorname
    /\ op.res[1].nrs_host # <<"m", "y", "n", "a", "m", "e">>







(***************************************************************************)
(* Specification SpecNew: a SafeUrl is constructed by SafeUrl::new or by   *)
(* SafeUrl::from_url and then has its path and fragment set. Here url is   *)
(* the Option that .ok() of the constructor's Result gives: None when the  *)
(* constructor returned an error.                                          *)
(***************************************************************************)
NewHosts ==
    {None, Some(<<>>), Some(<<"m", "y", "n", "a", "m", "e">>), Some(<<"a", ".", "b", ".", "c">>), Some(<<".", "a">>), Some(<<"a", ".">>), Some(<<"a", ".", ".", "b">>), Some(<<"s", "u", "b", ".", "a">>)}

NewXorNames == {TestXorName, sha3_256(<<"a">>), sha3_256(<<>>), sha3_256(<<"m", "y", "n", "a", "m", "e">>)}

NewSubNames == {None, Some(<< <<"s">> >>), Some(<< <<"a">>, <<>>, <<"b">> >>)}

NewPaths == {None, Some(<<>>), Some(<<"/">>), Some(<<"n", "-", "s">>), Some(<<"/", "a", " ", "b">>), Some(<<"a", "/", "/", "b">>)}

NewQueries == {None, Some(QueryFixtures[2].text), Some(QueryFixtures[3].text), Some(QueryFixtures[4].text)}

\* new() called with every host, xorname and sub-names, and nothing else
HostArgs ==
    {NewArgs(x, h, NRS_MAP_TYPE_TAG, "PublishedSeqAppendOnlyData", Fixed("NrsMapContainer"),
             [path |-> None, sub_names |-> sn, query_string |-> None, fragment |-> None,
              content_version |-> None]) :
        x \in NewXorNames, h \in NewHosts, sn \in NewSubNames}

\* new() called for a bare locator with every path, query string and content version
PopulateArgs ==
    {NewArgs(TestXorName, None, U64(63), "PublishedImmutableData", Fixed("Raw"),
             [path |-> pa, sub_names |-> None, query_string |-> q, fragment |-> None,
              content_version |-> v]) :
        pa \in NewPaths, q \in NewQueries, v \in Versions}

\* the URLs given to from_url
UrlTexts ==
    {SAFE_URL_PROTOCOL \o t : t \in
        {<<"m", "y", "n", "a", "m", "e">>, <<".", "a">>, <<"a", ".">>, <<"a", ".", ".", "b">>, <<"m", "y", "n", "a", "m", "e", "?", "v", "=", "x">>, <<"m", "y", "n", "a", "m", "e", "/", "a", "/", "/", "b">>, <<"s", "u", "b", ".", "m", "y", "n", "a", "m", "e", "/", "p", "?", "k", "=", "x", "&", "v", "=", "3", "#", "f">>,
         LocatorLabel, <<".">> \o LocatorLabel,
         <<"s", "u", "b", ".">> \o LocatorLabel \o <<"/", "p", "?", "v", "=", "1", "#", "f">>,
         LocatorLabel \o <<"?", "v", "=", "x">>}}
        \cup {<<"h", "t", "t", "p", ":", "/", "/", "a">>}

\* the paths given to set_path
SetPaths == {<<>>, <<"/">>, <<"n", "-", "s">>, <<"/", "/">>, <<"a", " ", "b">>, <<"/", "a", "/", "b">>}

InitNew ==
    /\ url = None
    /\ op = [name |-> "start", ok |-> TRUE]

New(a) ==
    /\ op.name = "start"
    /\ url' = Let([r \in {new(a)} |-> IF r.ok THEN Some(r.val) ELSE None])
    /\ op' = Let([r \in {new(a)} |->
                 [name |-> "new", args |-> a, ok |-> r.ok, error |-> ErrorOf(r)]])

FromUrl(text) ==
    /\ op.name = "start"
    /\ url' = Let([r \in {from_url(text)} |-> IF r.ok THEN Some(r.val) ELSE None])
    /\ op' = Let([r \in {from_url(text)} |->
                 [name |-> "from_url", arg |-> text, ok |-> r.ok, error |-> ErrorOf(r)]])

\* set_path on the constructed SafeUrl
SetPathOn(path) ==
    /\ url # None
    /\ url' = Some(set_path(url[1], path))
    /\ op' = [name |-> "set_path", path |-> path, ok |-> TRUE, pre |-> url[1]]

\* set_fragment on the constructed SafeUrl
SetFragmentOn(fragment) ==
    /\ url # None
    /\ url' = Some(set_fragment(url[1], fragment))
    /\ op' = [name |-> "set_fragment", fragment |-> fragment, ok |-> TRUE, pre |-> url[1]]

\* set_content_version on the constructed SafeUrl
SetContentVersionOn(version) ==
    /\ url # None
    /\ url' = Some(set_content_version(url[1], version))
    /\ op' = [name |-> "set_content_version", version |-> version, ok |-> TRUE,
              pre |-> url[1]]

\* validate on the constructed SafeUrl
ValidateOn ==
    /\ url # None
    /\ \E r \in {validate(url[1])} :
           op' = [name |-> "validate", ok |-> r.ok, error |-> ErrorOf(r), pre |-> url[1]]
    /\ UNCHANGED url

NextNew ==
    \/ \E a \in HostArgs \cup PopulateArgs
            \cup {[XorArgs(TestXorName, U64(63)) EXCEPT !.content_type = MediaType(m)] :
                     m \in {"text/html", "garbage/trash"}} : New(a)
    \/ \E text \in UrlTexts : FromUrl(text)
    \/ \E path \in SetPaths : SetPathOn(path)
    \/ \E fragment \in Fragments : SetFragmentOn(fragment)
    \/ \E version \in Versions : SetContentVersionOn(version)
    \/ ValidateOn

SpecNew == InitNew /\ [][NextNew]_vars

(***************************************************************************)
(* Properties of construction and of the path (specification SpecNew)      *)
(***************************************************************************)
\* the decoded pairs that the fixtures give for a query-string argument of new()
FixturePairs(query_string) ==
    IF query_string = None THEN <<>>
    ELSE (CHOOSE f \in Range(QueryFixtures) : f.text = query_string[1]).pairs

\* the query string has no v pair, or its last v value is a u64
LastVersionParses(query_string) ==
    LET vs == ValuesOf(FixturePairs(query_string), URL_VERSION_QUERY_NAME)
    IN  vs = <<>> \/ ParseU64(vs[Len(vs)]).ok

\* content_version is Some(n) and the query string holds one v pair, of value n
VersionIs(u, n) ==
    LET vs == ValuesOf(query_pairs(u), URL_VERSION_QUERY_NAME)
    IN  /\ u.content_version = Some(n)
        /\ Len(vs) = 1
        /\ Range(vs[1]) \subseteq Digits
        /\ DecimalValue(vs[1]) = n

\* C13 as stated: new() with content_version = Some(n) succeeds for every query_string
\* argument, whatever v value it carries, with content_version() = Some(n) and exactly one
\* v pair of value n
C13_VersionOverridesQuery ==
    (op.name = "new" /\ op.args \in PopulateArgs /\ op.args.content_version # None)
    => /\ op.ok
       /\ VersionIs(url[1], op.args.content_version[1])

\* C13 amended: new() with content_version = Some(n) succeeds exactly when the query_string
\* argument has no v pair or its last v value parses as u64, and then content_version() is
\* Some(n) and the query string holds exactly one v pair, of value n
C13_VersionOverridesParsedQuery ==
    (op.name = "new" /\ op.args \in PopulateArgs /\ op.args.content_version # None)
    => /\ op.ok <=> LastVersionParses(op.args.query_string)
       /\ op.ok => VersionIs(url[1], op.args.content_version[1])

\* new() has overridden two v pairs of the query_string argument, both of another version
C13_Witness ==
    /\ op.name = "new" /\ op.ok /\ op.args.content_version # None
    /\ Len(ValuesOf(FixturePairs(op.args.query_string), URL_VERSION_QUERY_NAME)) >= 2
    /\ \A v \in Range(ValuesOf(FixturePairs(op.args.query_string), URL_VERSION_QUERY_NAME)) :
          ParseU64(v).val # op.args.content_version[1]

\* C14: the stored path is empty or begins with '/'; set_path and new() store "" and "/" as
\* "" and prepend '/' to a path that does not begin with one
C14_PathNormalized ==
    /\ url # None => (url[1].path = <<>> \/ Head(url[1].path) = "/")
    /\ op.name = "set_path" =>
         /\ op.path \in {<<>>, <<"/">>} => url[1].path = <<>>
         /\ (op.path # <<>> /\ Head(op.path) # "/") =>
              /\ Head(url[1].path) = "/"
              /\ Range(op.path) \subseteq UrlUnreserved \cup {"/"} => Tail(url[1].path) = op.path
    /\ (op.name = "new" /\ op.ok) =>
         /\ op.args.path \in {None, Some(<<>>), Some(<<"/">>)} => url[1].path = <<>>
         /\ (op.args.path \notin {None, Some(<<>>)} /\ Head(op.args.path[1]) # "/") =>
              url[1].path = <<"/">> \o op.args.path[1]

\* set_path with a path without leading slash, on a SafeUrl that had another path
C14_Witness ==
    /\ op.name = "set_path"
    /\ op.path = <<"n", "-", "s">>
    /\ op.pre.path \notin {<<>>, <<"/", "n", "-", "s">>}
    /\ url[1].path = <<"/", "n", "-", "s">>

\* new() was called with a host and an xorname that is not the hash of its top-level label
MismatchedHost(a) ==
    /\ a.nrs_host # None
    /\ sha3_256(TopLabel(a.nrs_host[1])) # a.xorname

MismatchMessage == "input mis-match. nrs_host does not hash to xorname"

\* C15 as stated: new() with nrs_host = Some(host) and an xorname that is not the hash of
\* the top-level label of host fails with the mismatch error, no SafeUrl is produced, and
\* the error cites the computed hash and the supplied hash
C15_MismatchCitesBothHashes ==
    (op.name = "new" /\ MismatchedHost(op.args))
    => /\ ~op.ok
       /\ url = None
       /\ op.error.type = "InvalidInput"
       /\ op.error.msg = MismatchMessage
       /\ \E i \in 1..Len(op.error.detail) :
            op.error.detail[i] = sha3_256(TopLabel(op.args.nrs_host[1]))
       /\ \E i \in 1..Len(op.error.detail) : op.error.detail[i] = op.args.xorname

\* C15 amended: when host is not empty, is made of letters, digits, '-', '_' and '.' and
\* has no empty label between two dots, the call fails with the mismatch error, no SafeUrl
\* is produced, and the error cites the top-level label of host and the supplied xorname
C15_MismatchCitesLabel ==
    (/\ op.name = "new"
     /\ MismatchedHost(op.args)
     /\ op.args.nrs_host[1] # <<>>
     /\ Range(op.args.nrs_host[1]) \subseteq NameChars \cup {"."}
     /\ ~Contains(op.args.nrs_host[1], <<".", ".">>))
    => /\ ~op.ok
       /\ url = None
       /\ op.error.type = "InvalidInput"
       /\ op.error.msg = MismatchMessage
       /\ op.error.detail = <<TopLabel(op.args.nrs_host[1]), op.args.xorname>>

\* new() refused a host with sub-names whose top-level label has another hash
C15_Witness ==
    /\ op.name = "new" /\ ~op.ok
    /\ MismatchedHost(op.args)
    /\ Len(Split(op.args.nrs_host[1], ".")) = 3
    /\ op.error.msg = MismatchMessage

\* C16: an alias-form SafeUrl has a non-empty nrs_host without empty label (so without
\* leading or trailing '.'), and the hash of its top-level label is its xorname
C16_AliasHostWellFormed ==
    (url # None /\ is_nrs(url[1]))
    => /\ url[1].nrs_host # <<>>
       /\ \A i \in 1..Len(Split(url[1].nrs_host, ".")) : Split(url[1].nrs_host, ".")[i] # <<>>
       /\ sha3_256(TopLabel(url[1].nrs_host)) = url[1].xorname

\* C17: a SafeUrl without alias host has no empty entry in sub_names, and new() with
\* nrs_host = None and an empty string among sub_names fails with 'empty subname'
C17_SubNamesNonEmpty ==
    /\ (url # None /\ ~is_nrs(url[1]))
       => \A k \in 1..Len(url[1].sub_names) : url[1].sub_names[k] # <<>>
    /\ (/\ op.name = "new"
        /\ op.args.nrs_host = None
        /\ op.args.sub_names # None
        /\ \E k \in 1..Len(op.args.sub_names[1]) : op.args.sub_names[1][k] = <<>>)
       => /\ ~op.ok
          /\ url = None
          /\ op.error.type = "InvalidInput"
          /\ op.error.msg = "empty subname"

\* new() refused sub-names with an empty string between two names
C17_Witness ==
    /\ op.name = "new" /\ ~op.ok
    /\ op.args.nrs_host = None
    /\ op.args.sub_names = Some(<< <<"a">>, <<>>, <<"b">> >>)
    /\ op.error.msg = "empty subname"

\* C18: from_url returns the result of from_xorurl when that succeeds, and otherwise the
\* result of from_nrsurl, whose error is the one returned when both fail
C18_FromUrlOrder ==
    op.name = "from_url"
    => LET xor == from_xorurl(op.arg)
           nrs == from_nrsurl(op.arg)
       IN  IF xor.ok
           THEN op.ok /\ url = Some(xor.val)
           ELSE /\ op.ok = nrs.ok
                /\ nrs.ok => url = Some(nrs.val)
                /\ ~nrs.ok => (url = None /\ op.error = ErrorOf(nrs))

\* both decodings failed, each with its own error
C18_Witness ==
    /\ op.name = "from_url" /\ ~op.ok
    /\ ~from_xorurl(op.arg).ok
    /\ ErrorOf(from_xorurl(op.arg)) # op.error
    /\ op.error.type = "InvalidInput"

\* C20: validate() returns Ok only when from_url on the to_string() of the receiver
\* succeeds and returns a SafeUrl equal to the receiver
C20_ValidateRoundTrips ==
    (op.name = "validate" /\ op.ok)
    => /\ from_url(to_string(url[1]).val).ok
       /\ from_url(to_string(url[1]).val).val = url[1]

\* C28: for every SafeUrl that new or from_url returned, after any setters,
\* host_to_base succeeds for all three bases, so that to_xorurl_string is never the
\* empty string of the fallback; set_query_key with the key v and a version written in
\* decimal, or with no value, succeeds, these being the calls that set_content_version
\* makes; and Display::fmt returns no fmt::Error
C28_FallbacksUnreachable ==
    url # None =>
        /\ \A base \in XorUrlBase : host_to_base(url[1], base).ok
        /\ to_xorurl_string(url[1]) # <<>>
        /\ \A version \in Versions :
               set_query_key(url[1], URL_VERSION_QUERY_NAME,
                             IF version = None THEN None
                             ELSE Some(U64ToString(version[1]))).ok
        /\ to_string(url[1]).ok

\* set_content_version gave a version to a SafeUrl that new built with a media type
C28_Witness ==
    /\ url # None
    /\ op.name = "set_content_version"
    /\ op.pre.content_type.kind = "MediaType"
    /\ op.pre.content_version = None
    /\ url[1].content_version # None
    /\ host_to_base(url[1], "Base64").ok

====
